---- MODULE Spec2Model ----
(***************************************************************************)
(* A model of the financial projection engine: the scheduler's dependency  *)
(* graph (src/core/dag.py), the state manager with its snapshot store      *)
(* (src/core/state.py), the asset portfolio manager's liquidation          *)
(* (src/components/assets.py), the credit score calculator                 *)
(* (src/components/credit.py) and the day loop of the simulation engine    *)
(* (src/core/engine.py).                                                   *)
(*                                                                         *)
(* Money is counted in whole cents, fractions (penalties, rates, shocks)   *)
(* in percent or per-mille, credit scores in thousandths of a point.       *)
(***************************************************************************)
EXTENDS Integers, Sequences, FiniteSets, TLC

VARIABLES
    nodes,          \* DependencyGraph.nodes: the dict in insertion order
    dagRet,         \* outcome of the last call on the dependency graph
    heap,           \* the objects the state manager's references point to
    current_state,  \* StateManager.current_state: a reference, or NoRef
    snapshots,      \* StateManager.snapshots: day -> reference
    smRet,          \* outcome of the last call on the state manager
    captured,       \* per day, the state that was current at create_snapshot
    liqAssets,      \* the portfolio a caller has put together
    liqRet,         \* the last liquidate_assets call: arguments and result
    engines,        \* the SimulationEngine objects built so far, by id
    inputs,         \* per engine, the inputs it was built from
    np_random,      \* numpy's process-wide generator (np.random)
    creditCalls,    \* the calls a caller made on a credit calculator itself
    sort,           \* a topological_sort call in progress: its locals
    loc,            \* per engine and attribute, the identity of the object it holds
    branchRet,      \* outcome of the last branch_from_snapshot call
    tax_engine,     \* a TaxationEngine a caller holds
    taxCalls,       \* the calls made on it since its construction, with their returns
    currency_manager, \* an ExchangeRateManager a caller holds
    convRet,        \* the last call on it: arguments and outcome
    risk_analyzer,  \* a RiskAnalyzer a caller holds
    riskRet,        \* what its last snapshot() call returned
    payRet,         \* the last process_payment call: arguments and result
    vibeRet         \* the last status and grade lookups: score and results

dagVars == <<nodes, dagRet>>

smVars == <<heap, current_state, snapshots, smRet, captured>>

liqVars == <<liqAssets, liqRet>>

engineVars == <<engines, inputs, np_random, creditCalls, loc, branchRet>>

sortVars == <<sort>>

taxVars == <<tax_engine, taxCalls>>

currencyVars == <<currency_manager, convRet>>

riskVars == <<risk_analyzer, riskRet>>

payVars == <<payRet>>

behavioralVars == <<vibeRet>>

vars == <<nodes, dagRet, heap, current_state, snapshots, smRet, captured,
          liqAssets, liqRet, engines, inputs, np_random, creditCalls, sort, loc,
          branchRet, tax_engine, taxCalls, currency_manager, convRet,
          risk_analyzer, riskRet, payRet, vibeRet>>

\* what the calls on one component leave alone
notDagVars ==
    <<smVars, liqVars, engineVars, sortVars, taxVars, currencyVars, riskVars,
      payVars, behavioralVars>>

notSmVars ==
    <<dagVars, liqVars, engineVars, sortVars, taxVars, currencyVars, riskVars,
      payVars, behavioralVars>>

notLiqVars ==
    <<dagVars, smVars, engineVars, sortVars, taxVars, currencyVars, riskVars,
      payVars, behavioralVars>>

notEngineVars ==
    <<dagVars, smVars, liqVars, sortVars, taxVars, currencyVars, riskVars,
      payVars, behavioralVars>>

notSortVars ==
    <<dagRet, smVars, liqVars, engineVars, taxVars, currencyVars, riskVars,
      payVars, behavioralVars>>

notTaxVars ==
    <<dagVars, smVars, liqVars, engineVars, sortVars, currencyVars, riskVars,
      payVars, behavioralVars>>

notCurrencyVars ==
    <<dagVars, smVars, liqVars, engineVars, sortVars, taxVars, riskVars,
      payVars, behavioralVars>>

notRiskVars ==
    <<dagVars, smVars, liqVars, engineVars, sortVars, taxVars, currencyVars,
      payVars, behavioralVars>>

notPayVars ==
    <<dagVars, smVars, liqVars, engineVars, sortVars, taxVars, currencyVars,
      riskVars, behavioralVars>>

notBehavioralVars ==
    <<dagVars, smVars, liqVars, engineVars, sortVars, taxVars, currencyVars,
      riskVars, payVars>>

None == "None"

Range(s) == {s[i] : i \in 1..Len(s)}

Min(a, b) == IF a <= b THEN a ELSE b

Max(a, b) == IF a >= b THEN a ELSE b

\* a / b in per-mille, rounded down, for a >= 0 and b > 0: the long division
\* digit by digit, so that no intermediate product leaves 32 bits
PerMille(a, b) ==
    LET r1 == (a % b) * 10
        r2 == (r1 % b) * 10
        r3 == (r2 % b) * 10
    IN  (a \div b) * 1000 + (r1 \div b) * 100 + (r2 \div b) * 10 + (r3 \div b)

(***************************************************************************)
(* Scheduler: the dependency graph                                         *)
(***************************************************************************)

\* the names a caller registers, and the names a dependency may mention
NodeNames == {"A", "B", "C"}

DepNames == NodeNames \cup {"MISSING"}

\* the execute function a caller passes: "f" for a name it registers for the
\* first time, another function "g" when it registers the name again
ExecFnFor(ns, name) == IF name \in {ns[i].name : i \in 1..Len(ns)} THEN "g" ELSE "f"

\* bound: the number of dependencies one node declares
MaxDeps == 2

DepSets == {d \in SUBSET DepNames : Cardinality(d) <= MaxDeps}

NodeNameSet(ns) == {ns[i].name : i \in 1..Len(ns)}

NodeIndex(ns, name) == CHOOSE i \in 1..Len(ns) : ns[i].name = name

\* DAGNode(name, execute_fn): a node with no dependency
DAGNode(name, fn) == [name |-> name, execute_fn |-> fn, dependencies |-> {}]

\* DAGNode.add_dependency
add_dependency(node, dep) ==
    [node EXCEPT !.dependencies = @ \cup {dep}]

RECURSIVE AddDeps(_, _)
AddDeps(node, deps) ==
    IF deps = {} THEN node
    ELSE LET d == CHOOSE x \in deps : TRUE
         IN  AddDeps(add_dependency(node, d), deps \ {d})

\* add_node with the duplicate check left out: the dict entry is overwritten
add_node_overwrite(ns, name, fn, deps) ==
    IF name \in NodeNameSet(ns)
    THEN [ok |-> TRUE,
          nodes |-> [ns EXCEPT ![NodeIndex(ns, name)] = AddDeps(DAGNode(name, fn), deps)]]
    ELSE [ok |-> TRUE, nodes |-> Append(ns, AddDeps(DAGNode(name, fn), deps))]

\* DependencyGraph.add_node: the new dict and whether the call returned
add_node(ns, name, fn, deps) ==
    IF name \in NodeNameSet(ns)
    THEN [ok |-> FALSE, nodes |-> ns]
    ELSE [ok |-> TRUE, nodes |-> Append(ns, AddDeps(DAGNode(name, fn), deps))]

\* the first loops of topological_sort: the in-degree of every node, or the
\* missing-dependency error
InDegreeNoCheck(ns) ==
    [kind |-> "ok",
     in_degree |-> [n \in NodeNameSet(ns) |->
        Cardinality(ns[NodeIndex(ns, n)].dependencies \cap NodeNameSet(ns))]]

InDegree(ns) ==
    IF \E i \in 1..Len(ns) : \E dep \in ns[i].dependencies : dep \notin NodeNameSet(ns)
    THEN [kind |-> "missing"]
    ELSE [kind |-> "ok",
          in_degree |-> [n \in NodeNameSet(ns) |->
                            Cardinality(ns[NodeIndex(ns, n)].dependencies)]]

\* the inner for loop of the while loop: every node that depends on
\* `current` loses one in-degree and joins the queue when it reaches zero
RECURSIVE ReduceOffByOne(_, _, _, _)
ReduceOffByOne(ns, i, current, st) ==
    IF i > Len(ns) THEN st
    ELSE IF current \in ns[i].dependencies
         THEN LET deg == st.in_degree[ns[i].name] - 1
              IN  ReduceOffByOne(ns, i + 1, current,
                    [in_degree |-> [st.in_degree EXCEPT ![ns[i].name] = deg],
                     queue |-> IF deg \in {0, 1} THEN Append(st.queue, ns[i].name)
                                                ELSE st.queue])
         ELSE ReduceOffByOne(ns, i + 1, current, st)

RECURSIVE ReduceDependents(_, _, _, _)
ReduceDependents(ns, i, current, st) ==
    IF i > Len(ns) THEN st
    ELSE IF current \in ns[i].dependencies
         THEN LET deg == st.in_degree[ns[i].name] - 1
              IN  ReduceDependents(ns, i + 1, current,
                    [in_degree |-> [st.in_degree EXCEPT ![ns[i].name] = deg],
                     queue |-> IF deg = 0 THEN Append(st.queue, ns[i].name)
                                          ELSE st.queue])
         ELSE ReduceDependents(ns, i + 1, current, st)

\* the while loop of topological_sort
RECURSIVE KahnLoop(_, _, _, _)
KahnLoop(ns, queue, in_degree, result) ==
    IF queue = <<>> THEN result
    ELSE LET current == Head(queue)
             st == ReduceDependents(ns, 1, current,
                       [in_degree |-> in_degree, queue |-> Tail(queue)])
         IN  KahnLoop(ns, st.queue, st.in_degree, Append(result, current))

\* the names with in-degree zero, in insertion order
RECURSIVE ZeroQueue(_, _, _)
ZeroQueue(ns, i, in_degree) ==
    IF i > Len(ns) THEN <<>>
    ELSE IF in_degree[ns[i].name] = 0
         THEN <<ns[i].name>> \o ZeroQueue(ns, i + 1, in_degree)
         ELSE ZeroQueue(ns, i + 1, in_degree)

\* topological_sort without the final length check
topological_sort_nocheck(ns) ==
    LET deg == InDegree(ns)
    IN  IF deg.kind = "missing" THEN [kind |-> "missing", order |-> <<>>]
        ELSE [kind |-> "order",
              order |-> KahnLoop(ns, ZeroQueue(ns, 1, deg.in_degree), deg.in_degree, <<>>)]

\* DependencyGraph.topological_sort: the order, or the error raised
topological_sort(ns) ==
    LET deg == InDegree(ns)
    IN  IF deg.kind = "missing" THEN [kind |-> "missing", order |-> <<>>]
        ELSE LET result == KahnLoop(ns, ZeroQueue(ns, 1, deg.in_degree),
                                    deg.in_degree, <<>>)
             IN  IF Len(result) # Len(ns)
                 THEN [kind |-> "cycle", order |-> <<>>]
                 ELSE [kind |-> "order", order |-> result]

\* DependencyGraph.remove_node
remove_node(ns, name) ==
    IF name \notin NodeNameSet(ns) \/ \E i \in 1..Len(ns) : name \in ns[i].dependencies
    THEN [ok |-> FALSE, nodes |-> ns]
    ELSE [ok |-> TRUE, nodes |-> SelectSeq(ns, LAMBDA n : n.name # name)]

AddNode(name, deps) ==
    LET r == add_node(nodes, name, ExecFnFor(nodes, name), deps)
    IN  /\ nodes' = r.nodes
        /\ dagRet' = [op |-> "add_node", name |-> name, ok |-> r.ok]
        /\ UNCHANGED notDagVars

\* dag.nodes[name].add_dependency(dep), as the tests build a cycle
AddDependency(name, dep) ==
    /\ name \in NodeNameSet(nodes)
    /\ Cardinality(nodes[NodeIndex(nodes, name)].dependencies \cup {dep}) <= MaxDeps
    /\ nodes' = [nodes EXCEPT ![NodeIndex(nodes, name)] = add_dependency(@, dep)]
    /\ dagRet' = [op |-> "add_dependency"]
    /\ UNCHANGED notDagVars

RemoveNode(name) ==
    LET r == remove_node(nodes, name)
    IN  /\ nodes' = r.nodes
        /\ dagRet' = [op |-> "remove_node", ok |-> r.ok]
        /\ UNCHANGED notDagVars

TopologicalSort ==
    LET r == topological_sort(nodes)
    IN  /\ nodes' = nodes
        /\ dagRet' = [op |-> "topological_sort", kind |-> r.kind, order |-> r.order]
        /\ UNCHANGED notDagVars

DagNext ==
    \/ \E name \in NodeNames, deps \in DepSets : AddNode(name, deps)
    \/ \E name \in NodeNames, dep \in DepNames : AddDependency(name, dep)
    \/ \E name \in NodeNames : RemoveNode(name)
    \/ TopologicalSort

(***************************************************************************)
(* topological_sort, one loop iteration at a time                          *)
(***************************************************************************)

\* no call is in progress
IdleSort == [pc |-> "idle", in_degree |-> <<>>, queue |-> <<>>, result |-> <<>>]

\* an iteration of the while loop that leaves the queue as it is
KahnStepNoPop(ns, st) == st

\* one iteration of the while loop: popleft, append, reduce the dependents
KahnStep(ns, st) ==
    LET current == Head(st.queue)
        r == ReduceDependents(ns, 1, current,
                [in_degree |-> st.in_degree, queue |-> Tail(st.queue)])
    IN  [st EXCEPT !.in_degree = r.in_degree,
                   !.queue = r.queue,
                   !.result = Append(@, current)]

\* the call and its first loops: the in-degrees and the initial queue, or
\* the missing-dependency error
SortCall ==
    /\ sort.pc = "idle"
    /\ LET deg == InDegree(nodes)
       IN  sort' = IF deg.kind = "missing"
                   THEN [IdleSort EXCEPT !.pc = "raised"]
                   ELSE [pc |-> "while", in_degree |-> deg.in_degree,
                         queue |-> ZeroQueue(nodes, 1, deg.in_degree),
                         result |-> <<>>]
    /\ UNCHANGED nodes
    /\ UNCHANGED notSortVars

\* while queue: one iteration
SortLoop ==
    /\ sort.pc = "while"
    /\ sort.queue # <<>>
    /\ sort' = KahnStep(nodes, sort)
    /\ UNCHANGED nodes
    /\ UNCHANGED notSortVars

\* the queue is empty: the length check, then the return or the cycle error
SortExit ==
    /\ sort.pc = "while"
    /\ sort.queue = <<>>
    /\ sort' = [sort EXCEPT !.pc = IF Len(sort.result) # Len(nodes)
                                   THEN "raised" ELSE "returned"]
    /\ UNCHANGED nodes
    /\ UNCHANGED notSortVars

\* the caller has the order or the error: the locals of the call are gone
SortDone ==
    /\ sort.pc \in {"returned", "raised"}
    /\ sort' = IdleSort
    /\ UNCHANGED nodes
    /\ UNCHANGED notSortVars

\* the caller registers a node between two calls
SortAddNode(name, deps) ==
    /\ sort.pc = "idle"
    /\ AddNode(name, deps)

SortNext ==
    \/ \E name \in NodeNames, deps \in DepSets : SortAddNode(name, deps)
    \/ SortCall
    \/ SortLoop
    \/ SortExit
    \/ SortDone

(***************************************************************************)
(* State manager: the current state and the snapshot store                 *)
(*                                                                         *)
(* Python values are references.  The heap maps a reference to the object  *)
(* it points to: a FinancialState, whose assets and liabilities fields are *)
(* references to list objects, or a list with its items.  References are   *)
(* kept in a canonical numbering (the order in which the objects are met   *)
(* from current_state and then from the snapshots by ascending day), so    *)
(* that two heaps of the same shape are the same state.                    *)
(***************************************************************************)

NoRef == 0

\* bound: the snapshot keys and the day indices are 0..MaxSnapDay
MaxSnapDay == 1

SnapDays == 0..MaxSnapDay

\* FinancialState.credit_score = Field(ge=300, le=850)
CreditMin == 300

CreditMax == 850

EmptyKw == [x \in {} |-> 0]

\* an asset and a liability a caller may pass (models.Asset, models.Liability)
SmAsset == [id |-> "a1", type |-> "liquid", value |-> 5000, is_locked |-> FALSE,
            lock_until |-> 0, has_lock_until |-> FALSE, sale_penalty |-> 0]

SmLiability == [id |-> "l1", monthly_payment |-> 400, interest_rate |-> 5,
                remaining_balance |-> 20000]

\* the keyword arguments a caller passes to update_state: some of the
\* fields, or all of them (the engine's commit step); 900 is a credit score
\* the model class rejects
DayKws == {[day |-> d, date |-> d] : d \in SnapDays}

MoneyKws == {[balance |-> 5000, credit_score |-> 650],
             [balance |-> 7500, credit_score |-> 700]}

HoldingKws == {[assets |-> <<>>, liabilities |-> <<>>],
               [assets |-> <<SmAsset>>, liabilities |-> <<SmLiability>>]}

UpdateKwargs ==
    DayKws \cup MoneyKws \cup HoldingKws \cup {[credit_score |-> 900]}
        \cup {[day |-> MaxSnapDay, date |-> MaxSnapDay, balance |-> 7500,
               assets |-> <<SmAsset>>, liabilities |-> <<SmLiability>>,
               credit_score |-> 700]}

\* the keyword arguments a caller passes to initialize_state
InitKwargs ==
    {[day |-> 0, date |-> 0, balance |-> 5000],
     [day |-> 0, date |-> 0, balance |-> 7500, assets |-> <<SmAsset>>,
      liabilities |-> <<SmLiability>>, credit_score |-> 700],
     [day |-> 0, date |-> 0, balance |-> 5000, credit_score |-> 900]}

\* initialize_state's defaults: assets or [], liabilities or [], 650.0
WithDefaults(kw) ==
    kw @@ [assets |-> <<>>, liabilities |-> <<>>, credit_score |-> 650]

\* pydantic's validation of FinancialState(**state_dict)
ValidState(d) == d.credit_score >= CreditMin /\ d.credit_score <= CreditMax

\* the references of a FinancialState object: itself and its two lists
RefsOf(h, r) == <<r, h[r].assets, h[r].liabilities>>

RECURSIVE SortedSeq(_)
SortedSeq(S) ==
    IF S = {} THEN <<>>
    ELSE LET m == CHOOSE x \in S : \A y \in S : x <= y
         IN  <<m>> \o SortedSeq(S \ {m})

Roots(cur, snaps) ==
    (IF cur = NoRef THEN <<>> ELSE <<cur>>)
        \o [i \in 1..Cardinality(DOMAIN snaps) |-> snaps[SortedSeq(DOMAIN snaps)[i]]]

RECURSIVE Traversal(_, _)
Traversal(h, roots) ==
    IF roots = <<>> THEN <<>>
    ELSE RefsOf(h, Head(roots)) \o Traversal(h, Tail(roots))

RECURSIVE Dedup(_, _)
Dedup(seq, seen) ==
    IF seq = <<>> THEN <<>>
    ELSE IF Head(seq) \in seen THEN Dedup(Tail(seq), seen)
         ELSE <<Head(seq)>> \o Dedup(Tail(seq), seen \cup {Head(seq)})

\* the canonical numbering: unreachable objects are dropped, the others
\* renumbered in traversal order
Canon(h, cur, snaps) ==
    LET order == Dedup(Traversal(h, Roots(cur, snaps)), {})
        new(r) == CHOOSE i \in 1..Len(order) : order[i] = r
        obj(o) == IF o.cls = "FinancialState"
                  THEN [o EXCEPT !.assets = new(@), !.liabilities = new(@)]
                  ELSE o
    IN  [heap |-> [i \in 1..Len(order) |-> obj(h[order[i]])],
         cur |-> IF cur = NoRef THEN NoRef ELSE new(cur),
         snaps |-> [d \in DOMAIN snaps |-> new(snaps[d])]]

\* the value a reference to a FinancialState denotes
DeepValue(h, r) ==
    [day |-> h[r].day, date |-> h[r].date, balance |-> h[r].balance,
     assets |-> h[h[r].assets].items, liabilities |-> h[h[r].liabilities].items,
     credit_score |-> h[r].credit_score]

\* FinancialState(**d): a new object with new lists
NewState(h, d) ==
    LET r == Len(h) + 1
    IN  [heap |-> h \o <<[cls |-> "FinancialState", day |-> d.day, date |-> d.date,
                          balance |-> d.balance, assets |-> r + 1,
                          liabilities |-> r + 2, credit_score |-> d.credit_score],
                         [cls |-> "list", items |-> d.assets],
                         [cls |-> "list", items |-> d.liabilities]>>,
         ref |-> r]

\* copy.copy: a new FinancialState object that shares the two lists
shallowcopy(h, r) ==
    [heap |-> Append(h, h[r]), ref |-> Len(h) + 1]

\* copy.deepcopy of a FinancialState: new objects all the way down
deepcopy(h, r) == NewState(h, DeepValue(h, r))

\* StateManager.initialize_state
initialize_state(h, cur, snaps, kw) ==
    LET d == WithDefaults(kw)
    IN  IF ~ValidState(d)
        THEN [ok |-> FALSE, err |-> "ValidationError", heap |-> h, cur |-> cur, snaps |-> snaps]
        ELSE LET n == NewState(h, d)
             IN  [ok |-> TRUE, err |-> "", heap |-> n.heap, cur |-> n.ref, snaps |-> snaps]

\* an update_state that initializes the state when there is none and the
\* keywords name the required fields
update_state_or_init(h, cur, snaps, kw) ==
    IF cur = NoRef /\ {"day", "date", "balance"} \subseteq DOMAIN kw
    THEN initialize_state(h, cur, snaps, kw)
    ELSE IF cur = NoRef
    THEN [ok |-> FALSE, err |-> "State not initialized", heap |-> h, cur |-> cur, snaps |-> snaps]
    ELSE LET state_dict == kw @@ DeepValue(h, cur)
         IN  IF ~ValidState(state_dict)
             THEN [ok |-> FALSE, err |-> "ValidationError", heap |-> h, cur |-> cur,
                   snaps |-> snaps]
             ELSE LET n == NewState(h, state_dict)
                  IN  [ok |-> TRUE, err |-> "", heap |-> n.heap, cur |-> n.ref, snaps |-> snaps]

\* StateManager.update_state
update_state(h, cur, snaps, kw) ==
    IF cur = NoRef
    THEN [ok |-> FALSE, err |-> "State not initialized", heap |-> h, cur |-> cur, snaps |-> snaps]
    ELSE LET state_dict == kw @@ DeepValue(h, cur)
         IN  IF ~ValidState(state_dict)
             THEN [ok |-> FALSE, err |-> "ValidationError", heap |-> h, cur |-> cur,
                   snaps |-> snaps]
             ELSE LET n == NewState(h, state_dict)
                  IN  [ok |-> TRUE, err |-> "", heap |-> n.heap, cur |-> n.ref, snaps |-> snaps]

\* StateManager.create_snapshot
create_snapshot(h, cur, snaps, day) ==
    IF cur = NoRef
    THEN [ok |-> FALSE, err |-> "State not initialized", heap |-> h, cur |-> cur, snaps |-> snaps]
    ELSE LET c == deepcopy(h, cur)
         IN  [ok |-> TRUE, err |-> "", heap |-> c.heap, cur |-> cur,
              snaps |-> [d \in DOMAIN snaps \cup {day} |->
                            IF d = day THEN c.ref ELSE snaps[d]]]

\* restore_snapshot that takes the snapshot out of the store
restore_snapshot_pop(h, cur, snaps, day) ==
    IF day \notin DOMAIN snaps
    THEN [ok |-> FALSE, err |-> "No snapshot found", heap |-> h, cur |-> cur, snaps |-> snaps]
    ELSE [ok |-> TRUE, err |-> "", heap |-> h, cur |-> snaps[day],
          snaps |-> [d \in DOMAIN snaps \ {day} |-> snaps[d]]]

\* StateManager.restore_snapshot
restore_snapshot(h, cur, snaps, day) ==
    IF day \notin DOMAIN snaps
    THEN [ok |-> FALSE, err |-> "No snapshot found", heap |-> h, cur |-> cur, snaps |-> snaps]
    ELSE LET c == deepcopy(h, snaps[day])
         IN  [ok |-> TRUE, err |-> "", heap |-> c.heap, cur |-> c.ref, snaps |-> snaps]

\* the call's effect, in canonical numbering
SmApply(op, day, r) ==
    LET c == Canon(r.heap, r.cur, r.snaps)
    IN  /\ heap' = c.heap
        /\ current_state' = c.cur
        /\ snapshots' = c.snaps
        /\ smRet' = [op |-> op, ok |-> r.ok, err |-> r.err, day |-> day]
        /\ UNCHANGED notSmVars

InitializeState(kw) ==
    /\ SmApply("initialize_state", 0, initialize_state(heap, current_state, snapshots, kw))
    /\ UNCHANGED captured

UpdateState(kw) ==
    /\ SmApply("update_state", 0, update_state(heap, current_state, snapshots, kw))
    /\ UNCHANGED captured

CreateSnapshot(day) ==
    /\ SmApply("create_snapshot", day, create_snapshot(heap, current_state, snapshots, day))
    /\ captured' = IF current_state = NoRef THEN captured
                   ELSE [d \in DOMAIN captured \cup {day} |->
                            IF d = day THEN DeepValue(heap, current_state)
                            ELSE captured[d]]

\* a restore that reads the store with snapshots.get(day): no state when the
\* day has no snapshot
RestoreSnapshotGet(day) ==
    /\ SmApply("restore_snapshot", day,
               IF day \in DOMAIN snapshots
               THEN restore_snapshot(heap, current_state, snapshots, day)
               ELSE [ok |-> TRUE, err |-> "", heap |-> heap, cur |-> NoRef,
                     snaps |-> snapshots])
    /\ UNCHANGED captured

RestoreSnapshot(day) ==
    /\ SmApply("restore_snapshot", day, restore_snapshot(heap, current_state, snapshots, day))
    /\ UNCHANGED captured

SmNext ==
    \/ \E kw \in InitKwargs : InitializeState(kw)
    \/ \E kw \in UpdateKwargs : UpdateState(kw)
    \/ \E day \in SnapDays : CreateSnapshot(day)
    \/ \E day \in SnapDays : RestoreSnapshot(day)

(***************************************************************************)
(* Asset portfolio manager: lock status and liquidation                    *)
(***************************************************************************)

\* bound: the number of assets in a portfolio
MaxAssets == 3

\* models.AssetType
AssetTypes == {"liquid", "illiquid", "yield", "volatile"}

\* the unlock date of the assets that have one, and the dates of a call
LockDate == 2

LiqDates == {1, 2}

\* the amounts a caller requires
LiqAmounts == {100, 150, 250}

\* the assets a caller may hold: every type, unlocked, locked for good or
\* locked until LockDate, worth 100 and sold without penalty or worth 100
\* and sold at a 50 % penalty
AssetChoices ==
    {[type |-> t, value |-> 100, is_locked |-> l[1], has_lock_until |-> l[2],
      lock_until |-> LockDate, sale_penalty |-> p] :
        t \in AssetTypes,
        l \in {<<FALSE, FALSE>>, <<TRUE, FALSE>>, <<TRUE, TRUE>>},
        p \in {0, 50}}

WithId(a, id) == [id |-> id] @@ a

\* check_lock_status with the date comparison turned round
check_lock_status_flipped(asset, current_date) ==
    IF ~asset.is_locked THEN FALSE
    ELSE IF asset.has_lock_until /\ current_date <= asset.lock_until THEN FALSE
    ELSE TRUE

\* AssetPortfolioManager.check_lock_status
check_lock_status(asset, current_date) ==
    IF ~asset.is_locked THEN FALSE
    ELSE IF asset.has_lock_until /\ current_date >= asset.lock_until THEN FALSE
    ELSE TRUE

\* the partition of liquidate_assets
LockedAssets(assets, current_date) ==
    SelectSeq(assets, LAMBDA a : check_lock_status(a, current_date))

TierAssets(assets, current_date, type) ==
    SelectSeq(assets, LAMBDA a : ~check_lock_status(a, current_date) /\ a.type = type)

\* priority_list
PriorityList(assets, current_date) ==
    TierAssets(assets, current_date, "liquid")
        \o TierAssets(assets, current_date, "volatile")
        \o TierAssets(assets, current_date, "yield")
        \o TierAssets(assets, current_date, "illiquid")

\* asset.value * (1 - sale_penalty) and asset.value * sale_penalty
SaleValue(asset) == (asset.value * (100 - asset.sale_penalty)) \div 100

SalePenalty(asset) == (asset.value * asset.sale_penalty) \div 100

\* the liquidation loop stopping only when more than required was raised
RECURSIVE LiquidateLoopStrict(_, _, _)
LiquidateLoopStrict(list, required_amount, acc) ==
    IF list = <<>> THEN acc
    ELSE LET asset == Head(list)
         IN  IF acc.amount_raised > required_amount
             THEN LiquidateLoopStrict(Tail(list), required_amount,
                    [acc EXCEPT !.remaining_assets = Append(@, asset)])
             ELSE LiquidateLoopStrict(Tail(list), required_amount,
                    [acc EXCEPT !.amount_raised = @ + SaleValue(asset),
                                !.total_penalty = @ + SalePenalty(asset)])

\* the liquidation loop over priority_list
RECURSIVE LiquidateLoop(_, _, _)
LiquidateLoop(list, required_amount, acc) ==
    IF list = <<>> THEN acc
    ELSE LET asset == Head(list)
         IN  IF acc.amount_raised >= required_amount
             THEN LiquidateLoop(Tail(list), required_amount,
                    [acc EXCEPT !.remaining_assets = Append(@, asset)])
             ELSE LiquidateLoop(Tail(list), required_amount,
                    [acc EXCEPT !.amount_raised = @ + SaleValue(asset),
                                !.total_penalty = @ + SalePenalty(asset)])

\* liquidate_assets without the locked assets added back
liquidate_assets_nolocked(assets, required_amount, current_date) ==
    LiquidateLoop(PriorityList(assets, current_date), required_amount,
                  [remaining_assets |-> <<>>, amount_raised |-> 0, total_penalty |-> 0])

\* AssetPortfolioManager.liquidate_assets
liquidate_assets(assets, required_amount, current_date) ==
    LET acc == LiquidateLoop(PriorityList(assets, current_date), required_amount,
                   [remaining_assets |-> <<>>, amount_raised |-> 0, total_penalty |-> 0])
    IN  [acc EXCEPT !.remaining_assets = @ \o LockedAssets(assets, current_date)]

\* AssetPortfolioManager.calculate_total_value
RECURSIVE calculate_total_value(_)
calculate_total_value(assets) ==
    IF assets = <<>> THEN 0
    ELSE Head(assets).value + calculate_total_value(Tail(assets))

NoLiqRet == [called |-> FALSE, required_amount |-> 0, current_date |-> 0,
             remaining_assets |-> <<>>, amount_raised |-> 0, total_penalty |-> 0]

\* a caller adds an asset to the portfolio it will pass
LiqAddAsset(a) ==
    /\ ~liqRet.called
    /\ Len(liqAssets) < MaxAssets
    /\ liqAssets' = Append(liqAssets, WithId(a, Len(liqAssets) + 1))
    /\ UNCHANGED liqRet
    /\ UNCHANGED notLiqVars

LiqLiquidate(required_amount, current_date) ==
    LET r == liquidate_assets(liqAssets, required_amount, current_date)
    IN  /\ ~liqRet.called
        /\ liqRet' = [called |-> TRUE, required_amount |-> required_amount,
                      current_date |-> current_date,
                      remaining_assets |-> r.remaining_assets,
                      amount_raised |-> r.amount_raised,
                      total_penalty |-> r.total_penalty]
        /\ UNCHANGED liqAssets
        /\ UNCHANGED notLiqVars

\* the caller starts over with an empty portfolio
LiqReset ==
    /\ liqRet.called
    /\ liqAssets' = <<>>
    /\ liqRet' = NoLiqRet
    /\ UNCHANGED notLiqVars

LiqNext ==
    \/ \E a \in AssetChoices : LiqAddAsset(a)
    \/ \E required_amount \in LiqAmounts, current_date \in LiqDates :
          LiqLiquidate(required_amount, current_date)
    \/ LiqReset

(***************************************************************************)
(* Pseudo-random draws                                                     *)
(*                                                                         *)
(* A numpy RandomState is a seed and the number of draws taken from it;    *)
(* its k-th standard normal draw is a fixed function of the two, here a    *)
(* hash with values -2..2 (in standard deviations).                        *)
(***************************************************************************)

StdNormal(seed, k) == ((seed * 7 + (seed \div 3) + k * 3 + ((seed * k) % 4)) % 5) - 2

\* np.random.RandomState(seed)
RandomState(seed) == [seed |-> seed, pos |-> 0, global |-> FALSE]

\* rng.normal(0, sigma), sigma in per-mille: the draw and the generator after it
Normal(rng, sigma) ==
    [value |-> sigma * StdNormal(rng.seed, rng.pos + 1),
     rng |-> [rng EXCEPT !.pos = @ + 1]]

\* the generator of a day taken from numpy's process-wide generator
day_rng_global(seed, day, np_global) == [np_global EXCEPT !.global = TRUE]

\* day_rng = np.random.RandomState(self.seed + day)
day_rng(seed, day, np_global) == RandomState(seed + day)

(***************************************************************************)
(* Asset valuation                                                         *)
(***************************************************************************)

\* the daily volatility of liquid assets: normal(0, 0.001)
LiquidSigma == 1

\* the loop of update_asset_values without max(0, new_value)
RECURSIVE UpdateAssetLoopNoFloor(_, _, _)
UpdateAssetLoopNoFloor(assets, rng, acc) ==
    IF assets = <<>> THEN [assets |-> acc, rng |-> rng]
    ELSE LET asset == Head(assets)
         IN  IF asset.type = "volatile"
             THEN LET d == Normal(rng, asset.volatility)
                      v == asset.value + (asset.value * d.value) \div 1000
                  IN  UpdateAssetLoopNoFloor(Tail(assets), d.rng,
                                      Append(acc, [asset EXCEPT !.value = v]))
             ELSE IF asset.type = "yield"
             THEN LET v == asset.value + (asset.value * asset.volatility) \div 365000
                  IN  UpdateAssetLoopNoFloor(Tail(assets), rng,
                                      Append(acc, [asset EXCEPT !.value = v]))
             ELSE IF asset.type = "liquid"
             THEN LET d == Normal(rng, LiquidSigma)
                      v == asset.value + (asset.value * d.value) \div 1000
                  IN  UpdateAssetLoopNoFloor(Tail(assets), d.rng,
                                      Append(acc, [asset EXCEPT !.value = v]))
             ELSE UpdateAssetLoopNoFloor(Tail(assets), rng, Append(acc, asset))

\* update_asset_values: the loop over the assets; volatility is in per-mille
RECURSIVE UpdateAssetLoop(_, _, _)
UpdateAssetLoop(assets, rng, acc) ==
    IF assets = <<>> THEN [assets |-> acc, rng |-> rng]
    ELSE LET asset == Head(assets)
         IN  IF asset.type = "volatile"
             THEN LET d == Normal(rng, asset.volatility)
                      v == Max(0, asset.value + (asset.value * d.value) \div 1000)
                  IN  UpdateAssetLoop(Tail(assets), d.rng,
                                      Append(acc, [asset EXCEPT !.value = v]))
             ELSE IF asset.type = "yield"
             THEN LET v == asset.value + (asset.value * asset.volatility) \div 365000
                  IN  UpdateAssetLoop(Tail(assets), rng,
                                      Append(acc, [asset EXCEPT !.value = v]))
             ELSE IF asset.type = "liquid"
             THEN LET d == Normal(rng, LiquidSigma)
                      v == Max(0, asset.value + (asset.value * d.value) \div 1000)
                  IN  UpdateAssetLoop(Tail(assets), d.rng,
                                      Append(acc, [asset EXCEPT !.value = v]))
             ELSE UpdateAssetLoop(Tail(assets), rng, Append(acc, asset))

\* AssetPortfolioManager.update_asset_values: the new list, and the
\* generator the draws were taken from as it is after them
update_asset_values(assets, day, seed, np_global) ==
    UpdateAssetLoop(assets, day_rng(seed, day, np_global), <<>>)

(***************************************************************************)
(* Currency engine                                                         *)
(***************************************************************************)

\* the defaults of _initialize_base_rates, in 1/10000
DefaultRate(c) ==
    CASE c = "USD" -> 10000
      [] c = "EUR" -> 9200
      [] c = "GBP" -> 7900
      [] c = "PKR" -> 2785000
      [] OTHER -> 10000

\* update_rates_daily's default volatility 0.01, in per-mille
RateSigma == 10

\* ExchangeRateManager.__init__
ExchangeRateManager(base_currency, supported_currencies, seed) ==
    [base_currency |-> base_currency,
     supported_currencies |-> supported_currencies,
     seed |-> seed,
     base_rates |-> [c \in Range(supported_currencies) |-> DefaultRate(c)]]

RECURSIVE UpdateRatesLoop(_, _, _, _)
UpdateRatesLoop(cs, base_currency, rates, rng) ==
    IF cs = <<>> THEN rates
    ELSE IF Head(cs) = base_currency
         THEN UpdateRatesLoop(Tail(cs), base_currency, rates, rng)
         ELSE LET d == Normal(rng, RateSigma)
              IN  UpdateRatesLoop(Tail(cs), base_currency,
                    [rates EXCEPT ![Head(cs)] = @ + (@ * d.value) \div 1000],
                    d.rng)

\* ExchangeRateManager.update_rates_daily
update_rates_daily(cm, day) ==
    [cm EXCEPT !.base_rates =
        UpdateRatesLoop(cm.supported_currencies, cm.base_currency, @,
                        RandomState(cm.seed + day))]

\* ExchangeRateManager.convert, for configured currencies: round half up
convert(cm, amount, from_currency, to_currency) ==
    IF from_currency = to_currency THEN amount
    ELSE LET from_rate == cm.base_rates[from_currency]
             to_rate == cm.base_rates[to_currency]
         IN  (amount * to_rate * 2 + from_rate) \div (2 * from_rate)

\* ExchangeRateManager.convert as a call: the amount returned, or the error
convert_outcome(cm, amount, from_currency, to_currency) ==
    IF from_currency = to_currency
    THEN [ok |-> TRUE, raised |-> "", value |-> amount]
    ELSE IF from_currency \notin DOMAIN cm.base_rates
            \/ to_currency \notin DOMAIN cm.base_rates
    THEN [ok |-> FALSE, raised |-> "ValueError", value |-> 0]
    ELSE [ok |-> TRUE, raised |-> "",
          value |-> convert(cm, amount, from_currency, to_currency)]

(***************************************************************************)
(* Liability manager                                                       *)
(***************************************************************************)

\* accrue_daily_interest: interest_rate is in basis points a year
RECURSIVE accrue_daily_interest(_)
accrue_daily_interest(liabilities) ==
    IF liabilities = <<>> THEN <<>>
    ELSE LET l == Head(liabilities)
             interest == (l.remaining_balance * l.interest_rate) \div 3650000
         IN  <<[l EXCEPT !.remaining_balance = @ + interest]>>
                \o accrue_daily_interest(Tail(liabilities))

\* LiabilityManager.process_payment: the liability after the payment, and
\* whether it is paid off
process_payment(liability, payment_amount) ==
    LET rest == liability.remaining_balance - payment_amount
    IN  [liability |-> [liability EXCEPT !.remaining_balance = IF rest <= 0 THEN 0 ELSE rest],
         is_paid_off |-> rest <= 0]

RECURSIVE calculate_monthly_obligations(_)
calculate_monthly_obligations(liabilities) ==
    IF liabilities = <<>> THEN 0
    ELSE Head(liabilities).monthly_payment
            + calculate_monthly_obligations(Tail(liabilities))

RECURSIVE calculate_total_debt(_)
calculate_total_debt(liabilities) ==
    IF liabilities = <<>> THEN 0
    ELSE Head(liabilities).remaining_balance + calculate_total_debt(Tail(liabilities))

(***************************************************************************)
(* Credit score calculator: scores in thousandths of a point               *)
(***************************************************************************)

ScoreScale == 1000

\* CreditScoreCalculator.min_score, max_score
MinScore == 300 * ScoreScale

MaxScore == 850 * ScoreScale

\* the payment history keeps 24 entries
PaymentWindow == 24

\* CreditScoreCalculator.__init__
CreditScoreCalculator == [score |-> 650 * ScoreScale, payment_history |-> <<>>]

\* calculate_debt_ratio: infinite, or a ratio in per-mille
calculate_debt_ratio(total_debt, monthly_income) ==
    IF monthly_income = 0
    THEN [inf |-> total_debt > 0, permille |-> 0]
    ELSE [inf |-> FALSE,
          permille |-> IF total_debt >= 0 /\ monthly_income > 0
                       THEN PerMille(total_debt, monthly_income * 12)
                       ELSE (total_debt * 1000) \div (monthly_income * 12)]

\* a record_payment that drops the newest entry when the window is full
record_payment_newest(c, on_time) ==
    LET h == Append(c.payment_history, on_time)
    IN  [c EXCEPT !.payment_history =
            IF Len(h) > PaymentWindow THEN SubSeq(h, 1, PaymentWindow) ELSE h]

\* CreditScoreCalculator.record_payment
record_payment(c, on_time) ==
    LET h == Append(c.payment_history, on_time)
    IN  [c EXCEPT !.payment_history = IF Len(h) > PaymentWindow THEN Tail(h) ELSE h]

\* calculate_punctuality_score, in per-mille
calculate_punctuality_score(c) ==
    IF c.payment_history = <<>> THEN 1000
    ELSE (Len(SelectSeq(c.payment_history, LAMBDA b : b)) * 1000)
            \div Len(c.payment_history)

\* the score update before the clamp
RawScore(c, debt_ratio, balance, total_assets, had_default) ==
    LET debt == IF debt_ratio.inf THEN 20 * ScoreScale
                ELSE IF debt_ratio.permille > 0
                THEN Min(20 * ScoreScale, debt_ratio.permille * 20)
                ELSE 0
        punctuality == (calculate_punctuality_score(c) - 500) * 5
        asset_bonus == IF total_assets > 0
                       THEN Min(3 * ScoreScale, total_assets \div 10000) ELSE 0
        balance_part == IF balance > 0 THEN Min(2 * ScoreScale, balance \div 5000)
                        ELSE IF balance < 0 THEN -(50 * ScoreScale)
                        ELSE 0
        default_part == IF had_default THEN -(100 * ScoreScale) ELSE 0
    IN  c.score - debt + punctuality + asset_bonus + balance_part + default_part

\* update_score with the upper clamp only
update_score_noFloor(c, debt_ratio, balance, total_assets, had_default) ==
    [c EXCEPT !.score =
        Min(MaxScore, RawScore(c, debt_ratio, balance, total_assets, had_default))]

\* CreditScoreCalculator.update_score
update_score(c, debt_ratio, balance, total_assets, had_default) ==
    [c EXCEPT !.score =
        Max(MinScore,
            Min(MaxScore, RawScore(c, debt_ratio, balance, total_assets, had_default)))]

(***************************************************************************)
(* Taxation engine                                                         *)
(***************************************************************************)

\* the default brackets of load_config: threshold in cents, rate in percent
TaxBrackets == <<[threshold |-> 0, rate |-> 0],
                 [threshold |-> 5000000, rate |-> 10],
                 [threshold |-> 10000000, rate |-> 20],
                 [threshold |-> 20000000, rate |-> 30]>>

\* TaxationEngine.__init__
TaxationEngine == [brackets |-> TaxBrackets, realized_gains |-> 0, unrealized_gains |-> 0]

RECURSIVE IncomeTaxLoop(_, _, _, _)
IncomeTaxLoop(brackets, i, remaining_income, tax_owed) ==
    IF i > Len(brackets) THEN tax_owed
    ELSE LET bracket_income ==
                 IF i < Len(brackets)
                 THEN Min(remaining_income,
                          brackets[i + 1].threshold - brackets[i].threshold)
                 ELSE remaining_income
             tax == IF bracket_income > 0
                    THEN tax_owed + (bracket_income * brackets[i].rate) \div 100
                    ELSE tax_owed
             rest == IF bracket_income > 0 THEN remaining_income - bracket_income
                     ELSE remaining_income
         IN  IF rest <= 0 THEN tax
             ELSE IncomeTaxLoop(brackets, i + 1, rest, tax)

\* sorted(self.brackets, key=threshold): a stable sort, by insertion
RECURSIVE InsertBracket(_, _)
InsertBracket(sorted, b) ==
    IF sorted = <<>> THEN <<b>>
    ELSE IF b.threshold < Head(sorted).threshold THEN <<b>> \o sorted
    ELSE <<Head(sorted)>> \o InsertBracket(Tail(sorted), b)

RECURSIVE SortBrackets(_, _)
SortBrackets(done, todo) ==
    IF todo = <<>> THEN done
    ELSE SortBrackets(InsertBracket(done, Head(todo)), Tail(todo))

sorted_brackets(brackets) == SortBrackets(<<>>, brackets)

\* TaxationEngine.calculate_income_tax
calculate_income_tax(t, annual_income) ==
    IF annual_income <= 0 THEN 0
    ELSE IncomeTaxLoop(sorted_brackets(t.brackets), 1, annual_income, 0)

\* the default capital gains rate, in percent
CapitalGainsRate == 15

\* a capital gains tax on the realized and the unrealized gains together
calculate_capital_gains_tax_total(t) ==
    IF t.realized_gains + t.unrealized_gains <= 0 THEN 0
    ELSE ((t.realized_gains + t.unrealized_gains) * CapitalGainsRate) \div 100

\* TaxationEngine.calculate_capital_gains_tax
calculate_capital_gains_tax(t) ==
    IF t.realized_gains <= 0 THEN 0
    ELSE (t.realized_gains * CapitalGainsRate) \div 100

\* TaxationEngine.apply_annual_tax
apply_annual_tax(t, annual_income) ==
    calculate_income_tax(t, annual_income) + calculate_capital_gains_tax(t)

\* TaxationEngine.record_realized_gain
record_realized_gain(t, gain) == [t EXCEPT !.realized_gains = @ + gain]

\* TaxationEngine.record_unrealized_gain
record_unrealized_gain(t, gain) == [t EXCEPT !.unrealized_gains = @ + gain]

\* TaxationEngine.reset_annual_gains
reset_annual_gains(t) == [t EXCEPT !.realized_gains = 0, !.unrealized_gains = 0]

(***************************************************************************)
(* Risk analyzer and rolling metrics                                       *)
(***************************************************************************)

\* RiskAnalyzer.__init__
RiskAnalyzer == [balance_history |-> <<>>, deficit_days |-> 0, total_days |-> 0,
                 worst_drawdown |-> 0, peak_balance |-> 0]

\* a record_day that tests the peak, not the balance, for a deficit
risk_record_day_peak(r, balance) ==
    LET peak == IF balance > r.peak_balance THEN balance ELSE r.peak_balance
        worst == IF peak > 0
                 THEN Max(r.worst_drawdown, ((peak - balance) * 1000) \div peak)
                 ELSE r.worst_drawdown
    IN  [balance_history |-> Append(r.balance_history, balance),
         deficit_days |-> IF peak < 0 THEN r.deficit_days + 1 ELSE r.deficit_days,
         total_days |-> r.total_days + 1,
         worst_drawdown |-> worst,
         peak_balance |-> peak]

\* RiskAnalyzer.record_day: the drawdown is in per-mille of the peak
risk_record_day(r, balance) ==
    LET peak == IF balance > r.peak_balance THEN balance ELSE r.peak_balance
        worst == IF peak > 0
                 THEN Max(r.worst_drawdown, ((peak - balance) * 1000) \div peak)
                 ELSE r.worst_drawdown
    IN  [balance_history |-> Append(r.balance_history, balance),
         deficit_days |-> IF balance < 0 THEN r.deficit_days + 1 ELSE r.deficit_days,
         total_days |-> r.total_days + 1,
         worst_drawdown |-> worst,
         peak_balance |-> peak]

\* RiskAnalyzer.bankruptcy_probability, in per-mille
bankruptcy_probability(r) ==
    IF r.total_days = 0 THEN 0 ELSE (r.deficit_days * 1000) \div r.total_days

SeqMin(s) == CHOOSE x \in Range(s) : \A y \in Range(s) : x <= y

\* RiskAnalyzer.resilience_score_index, in tenths of a point
resilience_score_index(r) ==
    LET bp == bankruptcy_probability(r)
        dd == Min(1000, r.worst_drawdown)
        h == r.balance_history
        recovery ==
            IF Len(h) < 2 THEN 1000
            ELSE IF r.peak_balance > 0 /\ SeqMin(h) < r.peak_balance
                 THEN Max(0, PerMille(h[Len(h)] - SeqMin(h),
                                      r.peak_balance - SeqMin(h)))
                 ELSE 1000
        rsi == (400 * (1000 - bp) + 300 * (1000 - dd) + 300 * recovery) \div 1000
    IN  Max(0, Min(1000, rsi))

\* the loop of collapse_timing_density from chunk i on: per chunk its slice
\* arr[start:end] and the share of negative balances in it, in per-mille
RECURSIVE CollapseLoop(_, _, _, _, _)
CollapseLoop(arr, bins, chunk_size, i, acc) ==
    IF i >= bins THEN acc
    ELSE LET start == i * chunk_size
             end == Min(start + chunk_size, Len(arr))
             chunk == SubSeq(arr, start + 1, end)
         IN  IF Len(chunk) = 0 THEN acc
             ELSE CollapseLoop(arr, bins, chunk_size, i + 1,
                    Append(acc,
                        [start |-> start, end |-> end, label |-> i + 1,
                         deficit_frac |->
                            (Len(SelectSeq(chunk, LAMBDA b : b < 0)) * 1000)
                                \div Len(chunk)]))

\* RiskAnalyzer.collapse_timing_density: "Period n" is n
collapse_timing_density(r, bins) ==
    IF r.balance_history = <<>> THEN [bins |-> <<>>, density |-> <<>>]
    ELSE LET chunks == CollapseLoop(r.balance_history, bins,
                                    Max(1, Len(r.balance_history) \div bins), 0, <<>>)
         IN  [bins |-> [k \in 1..Len(chunks) |-> chunks[k].label],
              density |-> [k \in 1..Len(chunks) |-> chunks[k].deficit_frac]]

\* RiskAnalyzer.snapshot: the fields read off the counters
risk_snapshot(r) ==
    [called |-> TRUE,
     bankruptcy_probability |-> bankruptcy_probability(r),
     resilience_score_index |-> resilience_score_index(r),
     worst_drawdown |-> r.worst_drawdown,
     deficit_days |-> r.deficit_days,
     total_days |-> r.total_days]

\* RollingMetricsEngine(window_size=90)
WindowSize == 90

RollingMetricsEngine == [balance_window |-> <<>>, shock_events |-> <<>>]

\* RollingMetricsEngine.record_day: the magnitude is in per-mille
metrics_record_day(m, day, balance, prev_balance) ==
    LET w == Append(m.balance_window, balance)
        shock == prev_balance > 0 /\ (balance - prev_balance) * 100 < -(5 * prev_balance)
    IN  [balance_window |-> IF Len(w) > WindowSize THEN Tail(w) ELSE w,
         shock_events |->
            IF shock
            THEN Append(m.shock_events,
                        [day |-> day,
                         magnitude |-> ((prev_balance - balance) * 1000) \div prev_balance,
                         absolute_drop |-> prev_balance - balance])
            ELSE m.shock_events]

(***************************************************************************)
(* Simulation engine                                                       *)
(*                                                                         *)
(* Money is in cents, dates are days since the start date, credit scores   *)
(* are in thousandths of a point, volatility in per-mille, interest in     *)
(* basis points.  current_state is <<>> for None and <<s>> for a state.    *)
(***************************************************************************)

\* the engines a caller builds
Engines == {1, 2}

\* bound: the longest horizon a configuration asks for
MaxHorizon == 31

Horizons == {2, MaxHorizon}

Seeds == {42, 99}

ScenarioNames == {"standard", "deficit", "prime", "invalid", "test_deficit", "broke"}

\* the inputs of one build: configuration, registrations and initial state
Setups == [seed : Seeds, horizon_days : Horizons, scenario : ScenarioNames]

EngAsset(id, type, value, volatility, locked, sale_penalty) ==
    [id |-> id, type |-> type, value |-> value, volatility |-> volatility,
     is_locked |-> locked[1], has_lock_until |-> locked[2], lock_until |-> locked[3],
     sale_penalty |-> sale_penalty]

Unlocked == <<FALSE, FALSE, 0>>

EngLiability(id, principal, interest_rate, monthly_payment) ==
    [id |-> id, principal |-> principal, interest_rate |-> interest_rate,
     monthly_payment |-> monthly_payment, remaining_balance |-> principal]

Flow(amount, currency, frequency) ==
    [amount |-> amount, currency |-> currency, frequency |-> frequency]

\* what a caller registers and passes to initialize: the engine of the test
\* suite, a household living above its income, a wealthy one at the top
\* score, one passing a credit score the state model rejects, the deficit
\* scenario of the test suite, one who owns and earns nothing, and a household
\* with a taxable income that sells an asset every few months, and one whose
\* assets swing by more than their value in a day
Scenario(name) ==
    CASE name = "standard" ->
            [income_sources |-> <<Flow(500000, "USD", "monthly")>>,
             expense_items |-> <<Flow(250000, "USD", "monthly")>>,
             initial_balance |-> 1000000,
             assets |-> <<EngAsset("a1", "liquid", 500000, 20, Unlocked, 0),
                          EngAsset("a2", "volatile", 300000, 150, Unlocked, 0)>>,
             liabilities |-> <<EngLiability("l1", 1000000, 500, 40000)>>,
             credit_score |-> 680 * ScoreScale]
      [] name = "deficit" ->
            [income_sources |-> <<Flow(2000, "EUR", "daily")>>,
             expense_items |-> <<Flow(6000, "USD", "daily"),
                                 Flow(10000, "USD", "weekly")>>,
             initial_balance |-> 10000,
             assets |-> <<EngAsset("a1", "illiquid", 50000, 0, <<TRUE, TRUE, 20>>, 10),
                          EngAsset("a2", "volatile", 30000, 150, Unlocked, 0),
                          EngAsset("a3", "yield", 20000, 50, Unlocked, 5)>>,
             liabilities |-> <<EngLiability("l1", 200000, 500, 40000)>>,
             credit_score |-> 300 * ScoreScale]
      [] name = "prime" ->
            [income_sources |-> <<Flow(20000, "USD", "daily")>>,
             expense_items |-> <<>>,
             initial_balance |-> 1000000,
             assets |-> <<EngAsset("a1", "yield", 400000, 50, Unlocked, 0)>>,
             liabilities |-> <<>>,
             credit_score |-> 850 * ScoreScale]
      [] name = "test_deficit" ->
            [income_sources |-> <<Flow(100000, "USD", "monthly")>>,
             expense_items |-> <<Flow(300000, "USD", "monthly")>>,
             initial_balance |-> 100000,
             assets |-> <<>>,
             liabilities |-> <<>>,
             credit_score |-> 650 * ScoreScale]
      [] name = "growth" ->
            [income_sources |-> <<Flow(500000, "USD", "monthly")>>,
             expense_items |-> <<Flow(250000, "USD", "monthly")>>,
             initial_balance |-> 1000000,
             assets |-> <<EngAsset("a1", "liquid", 500000, 20, Unlocked, 0),
                          EngAsset("a2", "volatile", 300000, 150, Unlocked, 0)>>,
             liabilities |-> <<EngLiability("l1", 2000000, 500, 40000)>>,
             credit_score |-> 680 * ScoreScale]
      [] name = "eroding" ->
            [income_sources |-> <<Flow(500000, "USD", "monthly")>>,
             expense_items |-> <<Flow(560000, "USD", "monthly")>>,
             initial_balance |-> 50000,
             assets |-> <<EngAsset("a1", "liquid", 100000, 20, Unlocked, 0),
                          EngAsset("a2", "volatile", 200000, 150, Unlocked, 5),
                          EngAsset("a3", "yield", 300000, 50, Unlocked, 10),
                          EngAsset("a4", "illiquid", 400000, 0, <<TRUE, TRUE, 200>>, 20)>>,
             liabilities |-> <<>>,
             credit_score |-> 700 * ScoreScale]
      [] name = "wild" ->
            [income_sources |-> <<Flow(100000, "USD", "monthly")>>,
             expense_items |-> <<Flow(2000, "USD", "daily")>>,
             initial_balance |-> 100000,
             assets |-> <<EngAsset("a1", "volatile", 300, 600, Unlocked, 0),
                          EngAsset("a2", "volatile", 200, 700, <<TRUE, FALSE, 0>>, 0),
                          EngAsset("a3", "liquid", 100000, 20, Unlocked, 0),
                          EngAsset("a4", "yield", 100000, 1000, Unlocked, 5)>>,
             liabilities |-> <<EngLiability("l1", 500000, 2000, 20000),
                               EngLiability("l2", 0, 500, 0)>>,
             credit_score |-> 600 * ScoreScale]
      [] name = "broke" ->
            [income_sources |-> <<>>,
             expense_items |-> <<>>,
             initial_balance |-> 0,
             assets |-> <<>>,
             liabilities |-> <<>>,
             credit_score |-> 650 * ScoreScale]
      [] name = "invalid" ->
            [income_sources |-> <<>>,
             expense_items |-> <<>>,
             initial_balance |-> 10000,
             assets |-> <<>>,
             liabilities |-> <<>>,
             credit_score |-> 900 * ScoreScale]

\* the currencies the scenario's configuration names
ScenarioCurrencies(name) ==
    IF name = "test_deficit" THEN <<"USD">> ELSE <<"USD", "EUR", "GBP", "PKR">>

\* SimulationConfig(start_date, horizon_days, seed, base_currency, currencies)
SimulationConfig(setup) ==
    [start_date |-> 0, horizon_days |-> setup.horizon_days, seed |-> setup.seed,
     base_currency |-> "USD", currencies |-> ScenarioCurrencies(setup.scenario),
     initial_balance |-> Scenario(setup.scenario).initial_balance]

\* pydantic's validation of FinancialState(...)
ValidFinancialState(s) == s.credit_score >= MinScore /\ s.credit_score <= MaxScore

\* StateManager.__init__
StateManager == [current_state |-> <<>>, snapshots |-> EmptyKw]

\* StateManager.initialize_state: raises before assigning when invalid
sm_initialize_state(sm, s) ==
    IF ValidFinancialState(s)
    THEN [ok |-> TRUE, sm |-> [sm EXCEPT !.current_state = <<s>>]]
    ELSE [ok |-> FALSE, sm |-> sm]

\* StateManager.update_state
sm_update_state(sm, kw) ==
    IF sm.current_state = <<>> THEN [ok |-> FALSE, sm |-> sm]
    ELSE LET s == kw @@ sm.current_state[1]
         IN  IF ValidFinancialState(s)
             THEN [ok |-> TRUE, sm |-> [sm EXCEPT !.current_state = <<s>>]]
             ELSE [ok |-> FALSE, sm |-> sm]

\* a create_snapshot that keeps the newest snapshot only
sm_create_snapshot_latest(sm, day) ==
    IF sm.current_state = <<>> THEN sm
    ELSE [sm EXCEPT !.snapshots = [d \in {day} |-> sm.current_state[1]]]

\* StateManager.create_snapshot
sm_create_snapshot(sm, day) ==
    IF sm.current_state = <<>> THEN sm
    ELSE [sm EXCEPT !.snapshots =
            [d \in DOMAIN sm.snapshots \cup {day} |->
                IF d = day THEN sm.current_state[1] ELSE sm.snapshots[d]]]

\* StateManager.calculate_nav
calculate_nav(sm) ==
    IF sm.current_state = <<>> THEN 0
    ELSE sm.current_state[1].balance
            + calculate_total_value(sm.current_state[1].assets)
            - calculate_total_debt(sm.current_state[1].liabilities)

\* a / b in percent, rounded down
RatioPct(a, b) == IF b > 0 THEN (a * 100) \div b ELSE ((-a) * 100) \div (-b)

\* StateManager.calculate_liquidity_ratio, in percent
calculate_liquidity_ratio(sm) ==
    IF sm.current_state = <<>> THEN 0
    ELSE LET s == sm.current_state[1]
             total_assets == s.balance + calculate_total_value(s.assets)
             liquid_assets ==
                s.balance + calculate_total_value(
                    SelectSeq(s.assets, LAMBDA a : a.type = "liquid" /\ ~a.is_locked))
         IN  IF total_assets = 0 THEN 0 ELSE RatioPct(liquid_assets, total_assets)

\* the registrations with metrics_tracking registered without its dependency
DagRegistrationsLoose ==
    <<<<"exchange_rates", {}>>,
      <<"income_expenses", {"exchange_rates"}>>,
      <<"asset_valuation", {"exchange_rates"}>>,
      <<"liability_accrual", {"exchange_rates"}>>,
      <<"monthly_payments", {"liability_accrual", "income_expenses"}>>,
      <<"annual_tax", {"income_expenses"}>>,
      <<"deficit_liquidation", {"monthly_payments", "annual_tax", "asset_valuation"}>>,
      <<"credit_update", {"deficit_liquidation", "monthly_payments"}>>,
      <<"commit_state", {"credit_update"}>>,
      <<"metrics_tracking", {}>>,
      <<"snapshot", {"metrics_tracking"}>>>>

\* SimulationEngine._build_dag: the registrations in order
DagRegistrations ==
    <<<<"exchange_rates", {}>>,
      <<"income_expenses", {"exchange_rates"}>>,
      <<"asset_valuation", {"exchange_rates"}>>,
      <<"liability_accrual", {"exchange_rates"}>>,
      <<"monthly_payments", {"liability_accrual", "income_expenses"}>>,
      <<"annual_tax", {"income_expenses"}>>,
      <<"deficit_liquidation", {"monthly_payments", "annual_tax", "asset_valuation"}>>,
      <<"credit_update", {"deficit_liquidation", "monthly_payments"}>>,
      <<"commit_state", {"credit_update"}>>,
      <<"metrics_tracking", {"commit_state"}>>,
      <<"snapshot", {"metrics_tracking"}>>>>

RECURSIVE build_dag(_, _)
build_dag(regs, ns) ==
    IF regs = <<>> THEN ns
    ELSE build_dag(Tail(regs),
                   add_node(ns, Head(regs)[1], Head(regs)[1], Head(regs)[2]).nodes)

\* the locals of run_simulation, and the step functions the last simulated
\* day executed, in the order they ran
IdleRun == [phase |-> "built", day |-> 0, current_date |-> 0,
            annual_income_accumulator |-> 0, execution_order |-> <<>>, calls |-> 0,
            executed |-> <<>>]

NoResult == [generated |-> FALSE]

\* SimulationEngine.__init__
SimulationEngine(config) ==
    [config |-> config,
     state_manager |-> StateManager,
     currency_manager |->
        ExchangeRateManager(config.base_currency, config.currencies, config.seed),
     asset_manager |-> [seed |-> config.seed],
     credit_calculator |-> CreditScoreCalculator,
     tax_engine |-> TaxationEngine,
     metrics_engine |-> RollingMetricsEngine,
     risk_analyzer |-> RiskAnalyzer,
     dag |-> build_dag(DagRegistrations, <<>>),
     income_sources |-> <<>>,
     expense_items |-> <<>>,
     balance_history |-> <<>>,
     credit_history |-> <<>>,
     nav_history |-> <<>>,
     liquidity_history |-> <<>>,
     run |-> IdleRun,
     raised |-> "",
     result |-> NoResult]

\* SimulationEngine.add_income_source, add_expense
add_income_source(eng, income) == [eng EXCEPT !.income_sources = Append(@, income)]

add_expense(eng, expense) == [eng EXCEPT !.expense_items = Append(@, expense)]

RECURSIVE AddIncomeSources(_, _)
AddIncomeSources(eng, items) ==
    IF items = <<>> THEN eng
    ELSE AddIncomeSources(add_income_source(eng, Head(items)), Tail(items))

RECURSIVE AddExpenses(_, _)
AddExpenses(eng, items) ==
    IF items = <<>> THEN eng
    ELSE AddExpenses(add_expense(eng, Head(items)), Tail(items))

\* SimulationEngine.initialize: the validation error leaves the engine as it was
initialize(eng, initial_balance, assets, liabilities, credit_score) ==
    LET r == sm_initialize_state(eng.state_manager,
                [day |-> 0, date |-> eng.config.start_date, balance |-> initial_balance,
                 assets |-> assets, liabilities |-> liabilities,
                 credit_score |-> credit_score])
    IN  IF r.ok
        THEN [eng EXCEPT !.state_manager = r.sm,
                         !.credit_calculator.score = credit_score,
                         !.raised = ""]
        ELSE [eng EXCEPT !.raised = "ValidationError"]

\* SimulationEngine._daily_amount
daily_amount(amount, frequency, day) ==
    CASE frequency = "daily" -> amount
      [] frequency = "weekly" -> IF day % 7 = 0 THEN amount ELSE 0
      [] frequency = "monthly" -> IF day % 30 = 0 THEN amount ELSE 0
      [] frequency = "yearly" -> IF day % 365 = 0 THEN amount ELSE 0
      [] OTHER -> 0

\* the loop of _process_income and of _process_expenses
RECURSIVE ProcessFlows(_, _, _)
ProcessFlows(eng, flows, day) ==
    IF flows = <<>> THEN 0
    ELSE LET f == Head(flows)
             amt == daily_amount(f.amount, f.frequency, day)
             conv == IF f.currency # eng.config.base_currency
                     THEN convert(eng.currency_manager, amt, f.currency,
                                  eng.config.base_currency)
                     ELSE amt
         IN  conv + ProcessFlows(eng, Tail(flows), day)

process_income(eng, day) == ProcessFlows(eng, eng.income_sources, day)

process_expenses(eng, day) == ProcessFlows(eng, eng.expense_items, day)

(***************************************************************************)
(* The steps of a day.  A step takes and returns the engine, the context   *)
(* dict, numpy's process-wide generator and the exception raised, if any.  *)
(***************************************************************************)

step_exchange_rates(x) ==
    [x EXCEPT !.eng.currency_manager = update_rates_daily(@, x.ctx.day)]

\* _step_income_expenses with income and expenses taken for each other
step_income_expenses_swapped(x) ==
    LET income == process_income(x.eng, x.ctx.day)
        expenses == process_expenses(x.eng, x.ctx.day)
    IN  [x EXCEPT !.ctx.income = income,
                  !.ctx.expenses = expenses,
                  !.ctx.new_balance = x.ctx.state.balance - income + expenses,
                  !.ctx.annual_income_acc = @ + income]

step_income_expenses(x) ==
    LET income == process_income(x.eng, x.ctx.day)
        expenses == process_expenses(x.eng, x.ctx.day)
    IN  [x EXCEPT !.ctx.income = income,
                  !.ctx.expenses = expenses,
                  !.ctx.new_balance = x.ctx.state.balance + income - expenses,
                  !.ctx.annual_income_acc = @ + income]

step_asset_valuation(x) ==
    LET r == update_asset_values(x.ctx.state.assets, x.ctx.day,
                                 x.eng.asset_manager.seed, x.np)
    IN  [x EXCEPT !.ctx.updated_assets = r.assets,
                  !.np = IF r.rng.global THEN r.rng ELSE @]

step_liability_accrual(x) ==
    [x EXCEPT !.ctx.updated_liabilities = accrue_daily_interest(x.ctx.state.liabilities)]

\* _step_monthly_payments without the test that excludes day 0
step_monthly_payments_day0(x) ==
    IF x.ctx.day % 30 = 0
    THEN LET payment == calculate_monthly_obligations(x.ctx.updated_liabilities)
             new_balance == x.ctx.new_balance - payment
         IN  [x EXCEPT !.ctx.new_balance = new_balance,
                       !.eng.credit_calculator = record_payment(@, new_balance >= 0)]
    ELSE x

step_monthly_payments(x) ==
    IF x.ctx.day % 30 = 0 /\ x.ctx.day > 0
    THEN LET payment == calculate_monthly_obligations(x.ctx.updated_liabilities)
             new_balance == x.ctx.new_balance - payment
         IN  [x EXCEPT !.ctx.new_balance = new_balance,
                       !.eng.credit_calculator = record_payment(@, new_balance >= 0)]
    ELSE x

\* _step_annual_tax without the test that excludes day 0
step_annual_tax_day0(x) ==
    IF x.ctx.day % 365 = 0
    THEN LET tax == apply_annual_tax(x.eng.tax_engine, x.ctx.annual_income_acc)
         IN  [x EXCEPT !.ctx.new_balance = @ - tax,
                       !.ctx.annual_income_acc = 0,
                       !.eng.tax_engine = reset_annual_gains(@)]
    ELSE x

step_annual_tax(x) ==
    IF x.ctx.day % 365 = 0 /\ x.ctx.day > 0
    THEN LET tax == apply_annual_tax(x.eng.tax_engine, x.ctx.annual_income_acc)
         IN  [x EXCEPT !.ctx.new_balance = @ - tax,
                       !.ctx.annual_income_acc = 0,
                       !.eng.tax_engine = reset_annual_gains(@)]
    ELSE x

\* _step_deficit_liquidation taking the value before the sale after it
step_deficit_liquidation_prepost(x) ==
    IF x.ctx.new_balance < 0
    THEN LET deficit == -x.ctx.new_balance
             r == liquidate_assets(x.ctx.updated_assets, deficit, x.ctx.current_date)
             pre_liquidation_value == calculate_total_value(r.remaining_assets)
             post_liquidation_value == calculate_total_value(r.remaining_assets)
             realized_gain == r.amount_raised
                                - (pre_liquidation_value - post_liquidation_value)
                                + r.total_penalty
         IN  [x EXCEPT !.ctx.updated_assets = r.remaining_assets,
                       !.eng.tax_engine = IF realized_gain > 0
                                          THEN record_realized_gain(@, realized_gain)
                                          ELSE @,
                       !.ctx.new_balance = @ + r.amount_raised]
    ELSE x

\* _step_deficit_liquidation tolerating a deficit of up to 100.00
step_deficit_liquidation_late(x) ==
    IF x.ctx.new_balance < -10000
    THEN LET deficit == -x.ctx.new_balance
             pre_liquidation_value == calculate_total_value(x.ctx.updated_assets)
             r == liquidate_assets(x.ctx.updated_assets, deficit, x.ctx.current_date)
             post_liquidation_value == calculate_total_value(r.remaining_assets)
             realized_gain == r.amount_raised
                                - (pre_liquidation_value - post_liquidation_value)
                                + r.total_penalty
         IN  [x EXCEPT !.ctx.updated_assets = r.remaining_assets,
                       !.eng.tax_engine = IF realized_gain > 0
                                          THEN record_realized_gain(@, realized_gain)
                                          ELSE @,
                       !.ctx.new_balance = @ + r.amount_raised]
    ELSE x

step_deficit_liquidation(x) ==
    IF x.ctx.new_balance < 0
    THEN LET deficit == -x.ctx.new_balance
             pre_liquidation_value == calculate_total_value(x.ctx.updated_assets)
             r == liquidate_assets(x.ctx.updated_assets, deficit, x.ctx.current_date)
             post_liquidation_value == calculate_total_value(r.remaining_assets)
             realized_gain == r.amount_raised
                                - (pre_liquidation_value - post_liquidation_value)
                                + r.total_penalty
         IN  [x EXCEPT !.ctx.updated_assets = r.remaining_assets,
                       !.eng.tax_engine = IF realized_gain > 0
                                          THEN record_realized_gain(@, realized_gain)
                                          ELSE @,
                       !.ctx.new_balance = @ + r.amount_raised]
    ELSE x

step_credit_update(x) ==
    LET total_debt == calculate_total_debt(x.ctx.updated_liabilities)
        monthly_income == process_income(x.eng, 0) * 30
        debt_ratio == calculate_debt_ratio(total_debt, monthly_income)
        total_asset_val == calculate_total_value(x.ctx.updated_assets)
    IN  [x EXCEPT !.eng.credit_calculator =
            update_score(@, debt_ratio, x.ctx.new_balance, total_asset_val,
                         x.ctx.new_balance < 0)]

step_commit_state(x) ==
    LET r == sm_update_state(x.eng.state_manager,
                [day |-> x.ctx.day, date |-> x.ctx.current_date,
                 balance |-> x.ctx.new_balance, assets |-> x.ctx.updated_assets,
                 liabilities |-> x.ctx.updated_liabilities,
                 credit_score |-> x.eng.credit_calculator.score])
    IN  IF r.ok THEN [x EXCEPT !.eng.state_manager = r.sm]
        ELSE [x EXCEPT !.raised = "ValidationError"]

step_metrics_tracking(x) ==
    LET cur_balance == x.ctx.new_balance
    IN  [x EXCEPT
            !.eng.metrics_engine =
                metrics_record_day(@, x.ctx.day, cur_balance, x.ctx.prev_balance),
            !.eng.risk_analyzer = risk_record_day(@, cur_balance),
            !.eng.balance_history = Append(@, cur_balance),
            !.eng.credit_history = Append(@, x.eng.credit_calculator.score),
            !.eng.nav_history = Append(@, calculate_nav(x.eng.state_manager)),
            !.eng.liquidity_history =
                Append(@, calculate_liquidity_ratio(x.eng.state_manager))]

step_snapshot(x) ==
    IF x.ctx.day % 30 = 0
    THEN [x EXCEPT !.eng.state_manager = sm_create_snapshot(@, x.ctx.day)]
    ELSE x

\* node.execute(ctx): the lambda registered under the node's name
Execute(execute_fn, x) ==
    CASE execute_fn = "exchange_rates" -> step_exchange_rates(x)
      [] execute_fn = "income_expenses" -> step_income_expenses(x)
      [] execute_fn = "asset_valuation" -> step_asset_valuation(x)
      [] execute_fn = "liability_accrual" -> step_liability_accrual(x)
      [] execute_fn = "monthly_payments" -> step_monthly_payments(x)
      [] execute_fn = "annual_tax" -> step_annual_tax(x)
      [] execute_fn = "deficit_liquidation" -> step_deficit_liquidation(x)
      [] execute_fn = "credit_update" -> step_credit_update(x)
      [] execute_fn = "commit_state" -> step_commit_state(x)
      [] execute_fn = "metrics_tracking" -> step_metrics_tracking(x)
      [] execute_fn = "snapshot" -> step_snapshot(x)

\* for node_name in execution_order: ctx = node.execute(ctx)
RECURSIVE ExecuteAll(_, _)
ExecuteAll(order, x) ==
    IF order = <<>> \/ x.raised # "" THEN x
    ELSE LET execute_fn == x.eng.dag[NodeIndex(x.eng.dag, Head(order))].execute_fn
             y == Execute(execute_fn, x)
         IN  ExecuteAll(Tail(order), [y EXCEPT !.executed = Append(@, execute_fn)])

\* the context dict run_simulation builds at the start of a day
DayContext(eng) ==
    LET state == eng.state_manager.current_state[1]
    IN  [day |-> eng.run.day,
         state |-> state,
         prev_balance |-> state.balance,
         current_date |-> eng.run.current_date,
         new_balance |-> state.balance,
         updated_assets |-> state.assets,
         updated_liabilities |-> state.liabilities,
         income |-> 0,
         expenses |-> 0,
         annual_income_acc |-> eng.run.annual_income_accumulator]

\* one iteration of run_simulation's loop over the days
simulate_day(eng, np_global) ==
    IF eng.state_manager.current_state = <<>>
    THEN [eng |-> [eng EXCEPT !.run.phase = "failed", !.raised = "AttributeError"],
          np |-> np_global]
    ELSE LET x == ExecuteAll(eng.run.execution_order,
                     [eng |-> eng, ctx |-> DayContext(eng), np |-> np_global,
                      raised |-> "", executed |-> <<>>])
         IN  IF x.raised # ""
             THEN [eng |-> [x.eng EXCEPT !.run.phase = "failed", !.raised = x.raised,
                                         !.run.executed = x.executed],
                   np |-> x.np]
             ELSE [eng |-> [x.eng EXCEPT
                                !.run.annual_income_accumulator = x.ctx.annual_income_acc,
                                !.run.executed = x.executed,
                                !.run.current_date = @ + 1,
                                !.run.day = @ + 1],
                   np |-> x.np]

Last(s) == s[Len(s)]

\* OutputGenerator.generate: the fields of the results packet that are
\* read off the histories and the risk snapshot
generate(eng) ==
    [generated |-> TRUE,
     balance_history |-> eng.balance_history,
     credit_history |-> eng.credit_history,
     nav_history |-> eng.nav_history,
     liquidity_history |-> eng.liquidity_history,
     final_balance |-> IF eng.balance_history = <<>> THEN 0
                       ELSE Last(eng.balance_history),
     final_credit_score |-> IF eng.credit_history = <<>> THEN 650 * ScoreScale
                            ELSE Last(eng.credit_history),
     final_nav |-> IF eng.nav_history = <<>> THEN 0 ELSE Last(eng.nav_history),
     final_liquidity_ratio |-> IF eng.liquidity_history = <<>> THEN 0
                               ELSE Last(eng.liquidity_history),
     bankruptcy_probability |-> bankruptcy_probability(eng.risk_analyzer),
     resilience_score_index |-> resilience_score_index(eng.risk_analyzer),
     worst_drawdown |-> eng.risk_analyzer.worst_drawdown,
     total_days |-> eng.config.horizon_days]

(***************************************************************************)
(* Object identity.  An engine's attributes hold objects; loc[e][a] names   *)
(* the object attribute a of engine e holds, and two attributes holding    *)
(* the same object see each other's writes.                                *)
(***************************************************************************)

\* the attributes of a SimulationEngine that hold mutable objects
Attributes == {"config", "state_manager", "currency_manager", "asset_manager",
               "credit_calculator", "tax_engine", "metrics_engine", "risk_analyzer",
               "dag", "income_sources", "expense_items", "balance_history",
               "credit_history", "nav_history", "liquidity_history"}

\* an object created for attribute a of engine e
NewObject(e, a) == <<e, a>>

\* SimulationEngine.__init__ creates every object it holds
NewObjects(e) == [a \in Attributes |-> NewObject(e, a)]

\* the engines es, whose objects are named by l, after engine e's objects
\* took the values they have in eng: every other engine sees the new value
\* of an object it also holds
StoreIn(l, es, e, eng) ==
    [f \in DOMAIN es \cup {e} |->
        IF f = e THEN eng
        ELSE IF \A a \in Attributes : l[f][a] # l[e][a] THEN es[f]
        ELSE [k \in DOMAIN es[f] |->
                IF k \in Attributes /\ l[f][k] = l[e][k] THEN eng[k]
                ELSE es[f][k]]]

Store(e, eng) == StoreIn(loc, engines, e, eng)

NoBranchRet == [called |-> FALSE]

Built(e) == e \in DOMAIN engines

\* Python runs one call at a time: no run_simulation is in progress
NoneRunning == \A e \in DOMAIN engines : engines[e].run.phase # "running"

\* eng = SimulationEngine(cfg), then the registrations of the scenario
build_engine(setup) ==
    AddExpenses(
        AddIncomeSources(SimulationEngine(SimulationConfig(setup)),
                         Scenario(setup.scenario).income_sources),
        Scenario(setup.scenario).expense_items)

\* eng.initialize(...) with the scenario's initial state
initialize_from(eng, setup) ==
    LET sc == Scenario(setup.scenario)
        r == initialize(eng, sc.initial_balance, sc.assets, sc.liabilities,
                        sc.credit_score)
    IN  IF r.raised = "" THEN [r EXCEPT !.run.phase = "ready"] ELSE r

\* run_simulation up to its loop: the execution order is resolved once
start_run(eng) ==
    LET r == topological_sort(eng.dag)
    IN  IF r.kind = "order"
        THEN [eng EXCEPT !.run.phase = "running",
                         !.run.calls = @ + 1,
                         !.run.day = 0,
                         !.run.annual_income_accumulator = 0,
                         !.run.current_date = eng.config.start_date,
                         !.run.execution_order = r.order,
                         !.raised = ""]
        ELSE [eng EXCEPT !.run.phase = "failed", !.run.calls = @ + 1,
                         !.raised = "ValueError"]

\* run_simulation after its loop: the results packet
finish_run(eng) == [eng EXCEPT !.run.phase = "done", !.result = generate(eng)]

MakeEngine(e, setup) ==
    /\ ~Built(e)
    /\ NoneRunning
    /\ engines' = [f \in DOMAIN engines \cup {e} |->
                     IF f = e THEN build_engine(setup) ELSE engines[f]]
    /\ inputs' = [f \in DOMAIN inputs \cup {e} |-> IF f = e THEN setup ELSE inputs[f]]
    /\ np_random' = [seed |-> setup.seed, pos |-> 0, global |-> TRUE]
    /\ loc' = [f \in DOMAIN loc \cup {e} |-> IF f = e THEN NewObjects(e) ELSE loc[f]]
    /\ UNCHANGED <<creditCalls, branchRet>>
    /\ UNCHANGED notEngineVars

\* eng.initialize(initial_balance, assets, liabilities, credit_score)
Initialize(e) ==
    /\ Built(e)
    /\ NoneRunning
    /\ engines[e].run.phase = "built"
    /\ engines[e].raised = ""
    /\ engines' = Store(e, initialize_from(engines[e], inputs[e]))
    /\ UNCHANGED <<inputs, np_random, creditCalls, loc, branchRet>>
    /\ UNCHANGED notEngineVars

\* run_simulation is called on engine e
StartRun(e) ==
    /\ Built(e)
    /\ engines[e].run.phase \in {"built", "ready"}
    /\ engines' = Store(e, start_run(engines[e]))
    /\ UNCHANGED <<inputs, np_random, creditCalls, loc, branchRet>>
    /\ UNCHANGED notEngineVars

\* a caller that makes one call at a time calls run_simulation
RunStart(e) == NoneRunning /\ StartRun(e)

\* one day of the loop: the engine's objects take their new values
SimulateDay(e) ==
    /\ Built(e)
    /\ engines[e].run.phase = "running"
    /\ engines[e].run.day < engines[e].config.horizon_days
    /\ LET r == simulate_day(engines[e], np_random)
       IN  /\ engines' = Store(e, r.eng)
           /\ np_random' = r.np
    /\ UNCHANGED <<inputs, creditCalls, loc, branchRet>>
    /\ UNCHANGED notEngineVars

\* the loop is over: run_simulation returns the results packet
RunFinish(e) ==
    /\ Built(e)
    /\ engines[e].run.phase = "running"
    /\ engines[e].run.day = engines[e].config.horizon_days
    /\ engines' = Store(e, finish_run(engines[e]))
    /\ UNCHANGED <<inputs, np_random, creditCalls, loc, branchRet>>
    /\ UNCHANGED notEngineVars

EngineNext ==
    \/ \E e \in Engines, setup \in Setups : MakeEngine(e, setup)
    \/ \E e \in Engines : Initialize(e)
    \/ \E e \in Engines : RunStart(e)
    \/ \E e \in Engines : SimulateDay(e)
    \/ \E e \in Engines : RunFinish(e)

\* run_simulation's loop and return, on an engine no other call touches
RECURSIVE RunLoop(_)
RunLoop(eng) ==
    IF eng.run.phase # "running" THEN eng
    ELSE IF eng.run.day = eng.config.horizon_days THEN finish_run(eng)
    ELSE RunLoop(simulate_day(eng, [seed |-> eng.config.seed, pos |-> 0,
                                    global |-> TRUE]).eng)

\* eng.run_simulation() as one call
run_simulation(eng) == RunLoop(start_run(eng))

(***************************************************************************)
(* Runs of a year: the engine of the test suite over 365 and 366 days      *)
(***************************************************************************)

\* the horizon of test_stable_growth_scenario
GrowthHorizon == 365

\* the seeds of the configurations: each gives the assets another sequence
\* of daily shocks
YearSeeds == {1, 7, 42, 99, 123}

\* 365 days end before the first tax settlement, 366 days with it, and 731
\* days with the second
YearHorizons == {GrowthHorizon, GrowthHorizon + 1, 2 * GrowthHorizon + 1}

YearSetups == [seed : YearSeeds, horizon_days : YearHorizons, scenario : {"growth"}]

\* before the run the caller records a realized and an unrealized gain:
\* eng.tax_engine.record_realized_gain(...), record_unrealized_gain(...)
YearRecordGains(e) ==
    /\ Built(e)
    /\ engines[e].run.phase = "ready"
    /\ engines[e].tax_engine.realized_gains = 0
    /\ engines' = Store(e, [engines[e] EXCEPT !.tax_engine =
                        record_unrealized_gain(record_realized_gain(@, 1000000),
                                               500000)])
    /\ UNCHANGED <<inputs, np_random, creditCalls, loc, branchRet>>
    /\ UNCHANGED notEngineVars

YearNext ==
    \/ \E setup \in YearSetups : MakeEngine(1, setup)
    \/ Initialize(1)
    \/ YearRecordGains(1)
    \/ RunStart(1)
    \/ SimulateDay(1)
    \/ RunFinish(1)

(***************************************************************************)
(* Runs that sell assets and settle tax: nobody but the engine records a   *)
(* gain                                                                    *)
(***************************************************************************)

\* the household selling an asset every few months over a year and a day,
\* and the one living above its income and the one with the swinging assets
\* over a month
SaleSetups ==
    [seed : YearSeeds, horizon_days : {GrowthHorizon + 1}, scenario : {"eroding"}]
        \cup [seed : YearSeeds, horizon_days : {MaxHorizon},
              scenario : {"deficit", "wild"}]

\* the amounts a caller pays on a liability: a refund, nothing, less than
\* is owed, and more than any liability here owes
PaymentAmounts == {-10000, 0, 20000, 100000000}

NoPayRet == [called |-> FALSE]

\* updated, is_paid_off = eng.liability_manager.process_payment(
\*     eng.state_manager.current_state.liabilities[i], payment_amount)
ProcessPayment(e, i, payment_amount) ==
    /\ Built(e)
    /\ engines[e].run.phase = "done"
    /\ engines[e].state_manager.current_state # <<>>
    /\ i \in DOMAIN engines[e].state_manager.current_state[1].liabilities
    /\ LET liability == engines[e].state_manager.current_state[1].liabilities[i]
           r == process_payment(liability, payment_amount)
       IN  payRet' = [called |-> TRUE, liability |-> liability,
                      payment_amount |-> payment_amount,
                      updated |-> r.liability, is_paid_off |-> r.is_paid_off]
    /\ UNCHANGED engineVars
    /\ UNCHANGED notPayVars

SaleNext ==
    \/ \E setup \in SaleSetups : MakeEngine(1, setup)
    \/ Initialize(1)
    \/ RunStart(1)
    \/ SimulateDay(1)
    \/ RunFinish(1)
    \/ \E i \in 1..2, payment_amount \in PaymentAmounts :
            ProcessPayment(1, i, payment_amount)

(***************************************************************************)
(* Behavioral indicators: health scores in tenths of a point               *)
(***************************************************************************)

Tier(min_score, label, emoji) ==
    [min_score |-> min_score * 10, label |-> label, emoji |-> emoji]

\* behavioral.VIBE_THRESHOLDS: (min_score, label, icon), without the description
VIBE_THRESHOLDS ==
    <<Tier(90, "Thriving", "A+"), Tier(75, "Confident", "A"), Tier(60, "Stable", "B+"),
      Tier(45, "Cautious", "B"), Tier(30, "Stressed", "C"), Tier(15, "Critical", "D"),
      Tier(0, "Collapsed", "F")>>

\* behavioral.PET_STAGES: (min_score, stage, grade), without the description
PET_STAGES ==
    <<Tier(90, "Exceptional Stability", "S"), Tier(75, "Strong Stability", "A"),
      Tier(60, "Moderate Stability", "B+"), Tier(45, "Low Stability", "B"),
      Tier(30, "Fragile", "C"), Tier(15, "Unstable", "D"), Tier(0, "Critical", "F")>>

\* a lookup that takes a tier only above its threshold
RECURSIVE lookup_above(_, _)
lookup_above(score, table) ==
    IF Len(table) = 1 THEN [label |-> table[1].label, emoji |-> table[1].emoji]
    ELSE IF score > Head(table).min_score
         THEN [label |-> Head(table).label, emoji |-> Head(table).emoji]
         ELSE lookup_above(score, Tail(table))

\* behavioral._lookup: the first row whose min_score the score reaches, or
\* the last row; the label and the grade of the returned dict
RECURSIVE lookup(_, _)
lookup(score, table) ==
    IF Len(table) = 1 THEN [label |-> table[1].label, emoji |-> table[1].emoji]
    ELSE IF score >= Head(table).min_score
         THEN [label |-> Head(table).label, emoji |-> Head(table).emoji]
         ELSE lookup(score, Tail(table))

\* behavioral.get_vibe_state
get_vibe_state(health_score) == lookup(health_score, VIBE_THRESHOLDS)

\* behavioral.get_pet_state
get_pet_state(health_score) == lookup(health_score, PET_STAGES)

\* the scores a caller looks up: 0 to 100 in tenths, and some outside
HealthScores == -50..1050

NoVibeRet == [called |-> FALSE]

\* vibe = get_vibe_state(health_score); pet = get_pet_state(health_score)
LookUpStates(health_score) ==
    /\ vibeRet' = [called |-> TRUE, health_score |-> health_score,
                   vibe |-> get_vibe_state(health_score),
                   pet |-> get_pet_state(health_score)]
    /\ UNCHANGED notBehavioralVars

BehavioralNext == \E health_score \in HealthScores : LookUpStates(health_score)

(***************************************************************************)
(* Calls on a risk analyzer                                                *)
(***************************************************************************)

\* bound: the number of days recorded on one analyzer
MaxRiskDays == 4

\* the daily balances a caller records, in cents
RiskBalances == {-50000, 0, 50000, 100000, 200000}

NoRiskRet == [called |-> FALSE]

\* ra = RiskAnalyzer()
NewRiskAnalyzer ==
    /\ risk_analyzer.total_days > 0
    /\ risk_analyzer' = RiskAnalyzer
    /\ riskRet' = NoRiskRet
    /\ UNCHANGED notRiskVars

\* ra.record_day(balance)
RiskRecordDay(balance) ==
    /\ risk_analyzer.total_days < MaxRiskDays
    /\ risk_analyzer' = risk_record_day(risk_analyzer, balance)
    /\ UNCHANGED riskRet
    /\ UNCHANGED notRiskVars

\* ra.snapshot()
RiskSnapshot ==
    /\ riskRet' = risk_snapshot(risk_analyzer)
    /\ UNCHANGED risk_analyzer
    /\ UNCHANGED notRiskVars

RiskNext ==
    \/ NewRiskAnalyzer
    \/ \E balance \in RiskBalances : RiskRecordDay(balance)
    \/ RiskSnapshot

\* bound: the number of periods a caller asks for
MaxBins == 3

\* ra.collapse_timing_density(bins): the call, the history it read and what
\* it returned
CollapseTimingDensity(bins) ==
    /\ riskRet' = [called |-> TRUE, bins |-> bins,
                   balance_history |-> risk_analyzer.balance_history,
                   result |-> collapse_timing_density(risk_analyzer, bins)]
    /\ UNCHANGED risk_analyzer
    /\ UNCHANGED notRiskVars

DensityNext ==
    \/ NewRiskAnalyzer
    \/ \E balance \in RiskBalances : RiskRecordDay(balance)
    \/ \E bins \in 1..MaxBins : CollapseTimingDensity(bins)

(***************************************************************************)
(* Calls on a taxation engine                                              *)
(***************************************************************************)

\* bound: the number of calls made on one taxation engine
MaxTaxCalls == 3

\* the bracket tables a configuration file may hold (thresholds in cents,
\* rates in percent): the defaults, one bracket, two brackets from zero,
\* tables whose lowest threshold is above zero, and a table out of order
BracketTables ==
    {TaxBrackets,
     <<[threshold |-> 0, rate |-> 15]>>,
     <<[threshold |-> 0, rate |-> 10], [threshold |-> 1000000, rate |-> 20]>>,
     <<[threshold |-> 1000000, rate |-> 10], [threshold |-> 2000000, rate |-> 20]>>,
     <<[threshold |-> 500000, rate |-> 10]>>,
     <<[threshold |-> 1000000, rate |-> 20], [threshold |-> 0, rate |-> 10]>>}

\* the annual incomes a caller passes, in cents
Incomes == {-100000, 0, 500000, 1500000, 3000000, 7500000, 25000000}

\* the gains a caller records, in cents: a loss and two gains
Gains == {-200000, 300000, 1000000}

\* te = TaxationEngine(config_path), the file holding the table
NewTaxationEngine(brackets) ==
    /\ tax_engine' = [TaxationEngine EXCEPT !.brackets = brackets]
    /\ taxCalls' = <<>>
    /\ UNCHANGED notTaxVars

\* a call on the engine: its new state and what it returned
TaxCall(op, arg, t, ret) ==
    /\ Len(taxCalls) < MaxTaxCalls
    /\ tax_engine' = t
    /\ taxCalls' = Append(taxCalls, [op |-> op, arg |-> arg, ret |-> ret])
    /\ UNCHANGED notTaxVars

CalculateIncomeTax(annual_income) ==
    TaxCall("calculate_income_tax", annual_income, tax_engine,
            calculate_income_tax(tax_engine, annual_income))

RecordRealizedGain(gain) ==
    TaxCall("record_realized_gain", gain, record_realized_gain(tax_engine, gain), 0)

RecordUnrealizedGain(gain) ==
    TaxCall("record_unrealized_gain", gain, record_unrealized_gain(tax_engine, gain), 0)

CalculateCapitalGainsTax ==
    TaxCall("calculate_capital_gains_tax", 0, tax_engine,
            calculate_capital_gains_tax(tax_engine))

ResetAnnualGains ==
    TaxCall("reset_annual_gains", 0, reset_annual_gains(tax_engine), 0)

TaxNext ==
    \/ \E brackets \in BracketTables : NewTaxationEngine(brackets)
    \/ \E annual_income \in Incomes : CalculateIncomeTax(annual_income)
    \/ \E gain \in Gains : RecordRealizedGain(gain)
    \/ \E gain \in Gains : RecordUnrealizedGain(gain)
    \/ CalculateCapitalGainsTax
    \/ ResetAnnualGains

(***************************************************************************)
(* Calls on an exchange rate manager                                       *)
(***************************************************************************)

\* bound: the number of days the rates are updated for
MaxRateDays == 2

\* the currency lists a configuration names; the base currency is USD
CurrencyLists == {<<"USD", "EUR", "GBP", "PKR">>, <<"USD", "EUR">>}

\* the currencies a caller names: configured ones and two that never are
CallCurrencies == {"USD", "EUR", "PKR", "JPY", "CHF"}

\* the amounts a caller converts, in cents
CallAmounts == {0, 100, 250}

NoConvRet == [op |-> "init", day |-> 0]

\* cm = ExchangeRateManager("USD", currencies, 42)
NewExchangeRateManager(supported_currencies) ==
    /\ currency_manager' = ExchangeRateManager("USD", supported_currencies, 42)
    /\ convRet' = NoConvRet
    /\ UNCHANGED notCurrencyVars

\* cm.update_rates_daily(day), for one day after the other
UpdateRatesDaily ==
    /\ convRet.day < MaxRateDays
    /\ currency_manager' = update_rates_daily(currency_manager, convRet.day)
    /\ convRet' = [op |-> "update_rates_daily", day |-> convRet.day + 1]
    /\ UNCHANGED notCurrencyVars

\* cm.convert(amount, from_currency, to_currency): no attribute is written
Convert(amount, from_currency, to_currency) ==
    LET r == convert_outcome(currency_manager, amount, from_currency, to_currency)
    IN  /\ currency_manager' = currency_manager
        /\ convRet' = [op |-> "convert", day |-> convRet.day, amount |-> amount,
                       from_currency |-> from_currency, to_currency |-> to_currency,
                       ok |-> r.ok, raised |-> r.raised, value |-> r.value]
        /\ UNCHANGED notCurrencyVars

CurrencyNext ==
    \/ \E supported_currencies \in CurrencyLists :
            NewExchangeRateManager(supported_currencies)
    \/ UpdateRatesDaily
    \/ \E amount \in CallAmounts, from_currency, to_currency \in CallCurrencies :
            Convert(amount, from_currency, to_currency)

\* bound: the number of update_rates_daily calls made in any order
MaxRateCalls == 4

\* the days they are made for
RateCallDays == 0..MaxRateDays

\* the number of such calls made on the manager so far
RateCalls == IF "calls" \in DOMAIN convRet THEN convRet.calls ELSE 0

\* cm.update_rates_daily(day), for any day, whatever was called before
UpdateRatesOn(day) ==
    /\ RateCalls < MaxRateCalls
    /\ currency_manager' = update_rates_daily(currency_manager, day)
    /\ convRet' = [op |-> "update_rates_on", day |-> day, calls |-> RateCalls + 1]
    /\ UNCHANGED notCurrencyVars

RatesNext ==
    \/ \E supported_currencies \in CurrencyLists :
            NewExchangeRateManager(supported_currencies)
    \/ \E day \in RateCallDays : UpdateRatesOn(day)

(***************************************************************************)
(* run_simulation called again on an engine that has run                   *)
(***************************************************************************)

\* bound: the number of run_simulation calls on one engine
MaxRuns == 2

\* the inputs of the engines that are run again
RerunSetups == [seed : {42}, horizon_days : Horizons,
                scenario : {"standard", "test_deficit"}]

\* run_simulation is called on engine e, which has returned from a run
RunAgain(e) ==
    /\ Built(e)
    /\ engines[e].run.phase = "done"
    /\ engines[e].run.calls < MaxRuns
    /\ engines' = Store(e, start_run(engines[e]))
    /\ UNCHANGED <<inputs, np_random, creditCalls, loc, branchRet>>
    /\ UNCHANGED notEngineVars

RerunNext ==
    \/ \E e \in Engines, setup \in RerunSetups : MakeEngine(e, setup)
    \/ \E e \in Engines : Initialize(e)
    \/ \E e \in Engines : RunStart(e)
    \/ \E e \in Engines : SimulateDay(e)
    \/ \E e \in Engines : RunFinish(e)
    \/ \E e \in Engines : NoneRunning /\ RunAgain(e)

(***************************************************************************)
(* Branching from a snapshot                                               *)
(***************************************************************************)

\* the engine that is branched from and the branch engines
BranchParent == 1

Branches == {2, 3}

\* the days a caller asks a branch for: the engine's snapshot days and one
\* that never has a snapshot
BranchDays == {0, 15, 30}

\* the keyword overrides a caller passes: none for the first branch, which
\* continues the parent's plan, and other income sources for the second
Overrides == [c \in Branches |->
                IF c = 2 THEN {EmptyKw}
                ELSE {[income_sources |-> <<Flow(3000, "USD", "daily")>>]}]

\* the inputs of the engines that are branched from
BranchSetups == [seed : {42}, horizon_days : Horizons, scenario : {"standard"}]

\* overrides.get(key, default)
Get(kwargs, key, default) == IF key \in DOMAIN kwargs THEN kwargs[key] ELSE default

\* the object an attribute holds when it is assigned without a copy
copy_assign(e, a, src) == src

\* copy.deepcopy(obj): a new object
copy_deepcopy(e, a, src) == NewObject(e, a)

\* the objects of the list a caller passes as an override
CallerObject(a) == <<0, a>>

\* the objects the branch engine c of engine p holds: its configuration and
\* its income and expense lists are deep copies, the rest is built by
\* SimulationEngine.__init__
branch_objects(l, p, c, overrides) ==
    [a \in Attributes |->
        IF a = "config" THEN copy_deepcopy(c, a, l[p][a])
        ELSE IF a \in {"income_sources", "expense_items"}
             THEN copy_deepcopy(c, a, IF a \in DOMAIN overrides THEN CallerObject(a)
                                      ELSE l[p][a])
        ELSE NewObject(c, a)]

\* a branch that keeps the horizon of its parent
branch_from_state_fullhorizon(eng, snapshot_state, snapshot_day, overrides) ==
    LET remaining_days == eng.config.horizon_days
        branch_config == [eng.config EXCEPT !.horizon_days = remaining_days,
                                            !.start_date = snapshot_state.date]
        branch_engine ==
            [SimulationEngine(branch_config) EXCEPT
                !.income_sources = Get(overrides, "income_sources", eng.income_sources),
                !.expense_items = Get(overrides, "expense_items", eng.expense_items)]
        initialized == initialize(branch_engine, snapshot_state.balance,
                                  snapshot_state.assets, snapshot_state.liabilities,
                                  snapshot_state.credit_score)
    IN  [ok |-> TRUE, raised |-> "",
         engine |-> IF initialized.raised = ""
                    THEN [initialized EXCEPT !.run.phase = "ready"]
                    ELSE initialized]

\* branch_from_snapshot past its check: the branch engine built from the
\* snapshot's state
branch_from_state(eng, snapshot_state, snapshot_day, overrides) ==
    LET remaining_days == eng.config.horizon_days - snapshot_day
        branch_config == [eng.config EXCEPT !.horizon_days = remaining_days,
                                            !.start_date = snapshot_state.date]
        branch_engine ==
            [SimulationEngine(branch_config) EXCEPT
                !.income_sources = Get(overrides, "income_sources", eng.income_sources),
                !.expense_items = Get(overrides, "expense_items", eng.expense_items)]
        initialized == initialize(branch_engine, snapshot_state.balance,
                                  snapshot_state.assets, snapshot_state.liabilities,
                                  snapshot_state.credit_score)
    IN  [ok |-> TRUE, raised |-> "",
         engine |-> IF initialized.raised = ""
                    THEN [initialized EXCEPT !.run.phase = "ready"]
                    ELSE initialized]

\* a branch_from_snapshot that falls back on the current state when the day
\* has no snapshot
branch_from_snapshot_or_current(eng, snapshot_day, overrides) ==
    IF snapshot_day \in DOMAIN eng.state_manager.snapshots
    THEN branch_from_state(eng, eng.state_manager.snapshots[snapshot_day],
                           snapshot_day, overrides)
    ELSE IF eng.state_manager.current_state = <<>>
    THEN [ok |-> FALSE, raised |-> "ValueError"]
    ELSE branch_from_state(eng, eng.state_manager.current_state[1], 0, overrides)

\* SimulationEngine.branch_from_snapshot: the branch engine, or the error
branch_from_snapshot(eng, snapshot_day, overrides) ==
    IF snapshot_day \notin DOMAIN eng.state_manager.snapshots
    THEN [ok |-> FALSE, raised |-> "ValueError"]
    ELSE branch_from_state(eng, eng.state_manager.snapshots[snapshot_day],
                           snapshot_day, overrides)

\* c = engines[p].branch_from_snapshot(snapshot_day, **overrides)
BranchFromSnapshot(p, c, snapshot_day, overrides) ==
    /\ Built(p)
    /\ ~Built(c)
    /\ LET r == branch_from_snapshot(engines[p], snapshot_day, overrides)
           l == [f \in DOMAIN loc \cup {c} |->
                    IF f = c THEN branch_objects(loc, p, c, overrides) ELSE loc[f]]
       IN  /\ IF r.ok
              THEN /\ engines' = StoreIn(l, engines, c, r.engine)
                   /\ loc' = l
                   /\ inputs' = [f \in DOMAIN inputs \cup {c} |->
                                    IF f = c
                                    THEN [branch_of |-> p, snapshot_day |-> snapshot_day,
                                          overrides |-> overrides, engine |-> r.engine]
                                    ELSE inputs[f]]
                   /\ np_random' = [seed |-> r.engine.config.seed, pos |-> 0,
                                    global |-> TRUE]
              ELSE UNCHANGED <<engines, loc, inputs, np_random>>
           /\ branchRet' = [called |-> TRUE, parent |-> p, child |-> c,
                            snapshot_day |-> snapshot_day, ok |-> r.ok,
                            raised |-> r.raised]
    /\ UNCHANGED creditCalls
    /\ UNCHANGED notEngineVars

\* the caller has taken the branch engine, or the error, of its call
BranchReturn ==
    /\ branchRet.called
    /\ branchRet' = NoBranchRet
    /\ UNCHANGED <<engines, inputs, np_random, creditCalls, loc>>
    /\ UNCHANGED notEngineVars

\* the number of threads that run simulations
MaxRunning == 2

\* the engines in the middle of a run
Running == {e \in DOMAIN engines : engines[e].run.phase = "running"}

\* a free thread calls run_simulation on engine e
ThreadStartRun(e) == Cardinality(Running) < MaxRunning /\ StartRun(e)

\* an engine, its branches, and their runs, the days of which interleave
BranchNext ==
    \/ ~branchRet.called /\ \E setup \in BranchSetups : MakeEngine(BranchParent, setup)
    \/ ~branchRet.called /\ Initialize(BranchParent)
    \/ ~branchRet.called /\ \E e \in {BranchParent} \cup Branches : ThreadStartRun(e)
    \/ ~branchRet.called /\ \E e \in {BranchParent} \cup Branches : SimulateDay(e)
    \/ ~branchRet.called /\ \E e \in {BranchParent} \cup Branches : RunFinish(e)
    \/ ~branchRet.called
         /\ \E c \in Branches, snapshot_day \in BranchDays :
              \E overrides \in Overrides[c] :
                BranchFromSnapshot(BranchParent, c, snapshot_day, overrides)
    \/ BranchReturn

(***************************************************************************)
(* Calls on an engine's credit calculator from outside the daily steps     *)
(***************************************************************************)

\* bound: the number of such calls
MaxDirectCalls == 1

\* the arguments a caller passes to update_score: no debt, some, or debt
\* without income; a balance of either sign; assets or none
DebtRatios == {[inf |-> FALSE, permille |-> 0], [inf |-> FALSE, permille |-> 700],
               [inf |-> TRUE, permille |-> 0]}

CallBalances == {-100, 0, 10000000}

CallAssets == {0, 40000000}

\* engines[e].credit_calculator.update_score(debt_ratio, balance, total_assets, had_default)
UpdateScoreCall(e, debt_ratio, balance, total_assets, had_default) ==
    /\ Built(e)
    /\ NoneRunning
    /\ Len(creditCalls) < MaxDirectCalls
    /\ engines' = [engines EXCEPT ![e].credit_calculator =
            update_score(@, debt_ratio, balance, total_assets, had_default)]
    /\ creditCalls' = Append(creditCalls,
            [op |-> "update_score", debt_ratio |-> debt_ratio, balance |-> balance,
             total_assets |-> total_assets, had_default |-> had_default])
    /\ UNCHANGED <<inputs, np_random, loc, branchRet>>
    /\ UNCHANGED notEngineVars

\* engines[e].credit_calculator.record_payment(on_time)
RecordPaymentCall(e, on_time) ==
    /\ Built(e)
    /\ NoneRunning
    /\ Len(creditCalls) < MaxDirectCalls
    /\ engines' = [engines EXCEPT ![e].credit_calculator = record_payment(@, on_time)]
    /\ creditCalls' = Append(creditCalls, [op |-> "record_payment", on_time |-> on_time])
    /\ UNCHANGED <<inputs, np_random, loc, branchRet>>
    /\ UNCHANGED notEngineVars

\* bound: the number of payments a caller records on one calculator
MaxPayments == 26

\* bound: the number of them that are late
MaxLate == 2

\* the engine whose calculator takes the payments: it is built and never run
PaymentSetups == {[seed |-> 42, horizon_days |-> 2, scenario |-> "broke"]}

LatePayments(calls) == Len(SelectSeq(calls, LAMBDA c : ~c.on_time))

\* one of a series of engines[e].credit_calculator.record_payment(on_time)
RecordPaymentOfSeries(e, on_time) ==
    /\ Built(e)
    /\ NoneRunning
    /\ Len(creditCalls) < MaxPayments
    /\ on_time \/ LatePayments(creditCalls) < MaxLate
    /\ engines' = [engines EXCEPT ![e].credit_calculator = record_payment(@, on_time)]
    /\ creditCalls' = Append(creditCalls, [op |-> "record_payment", on_time |-> on_time])
    /\ UNCHANGED <<inputs, np_random, loc, branchRet>>
    /\ UNCHANGED notEngineVars

PaymentNext ==
    \/ \E setup \in PaymentSetups : MakeEngine(1, setup)
    \/ \E on_time \in BOOLEAN : RecordPaymentOfSeries(1, on_time)

\* one engine, its runs, and the calls on its credit calculator
CreditNext ==
    \/ \E setup \in Setups : MakeEngine(1, setup)
    \/ Initialize(1)
    \/ RunStart(1)
    \/ SimulateDay(1)
    \/ RunFinish(1)
    \/ \E debt_ratio \in DebtRatios, balance \in CallBalances,
          total_assets \in CallAssets, had_default \in BOOLEAN :
            UpdateScoreCall(1, debt_ratio, balance, total_assets, had_default)
    \/ \E on_time \in BOOLEAN : RecordPaymentCall(1, on_time)

(***************************************************************************)
(* Specifications: one per component, the other components at rest         *)
(***************************************************************************)

\* the state after construction: DependencyGraph.__init__, StateManager.__init__
Init ==
    /\ nodes = <<>>
    /\ dagRet = [op |-> "init"]
    /\ heap = <<>>
    /\ current_state = NoRef
    /\ snapshots = EmptyKw
    /\ smRet = [op |-> "init", ok |-> TRUE, err |-> "", day |-> 0]
    /\ captured = EmptyKw
    /\ liqAssets = <<>>
    /\ liqRet = NoLiqRet
    /\ engines = EmptyKw
    /\ inputs = EmptyKw
    /\ np_random = [seed |-> 0, pos |-> 0, global |-> TRUE]
    /\ creditCalls = <<>>
    /\ sort = IdleSort
    /\ loc = EmptyKw
    /\ branchRet = NoBranchRet
    /\ tax_engine = TaxationEngine
    /\ taxCalls = <<>>
    /\ currency_manager = ExchangeRateManager("USD", <<"USD", "EUR", "GBP", "PKR">>, 42)
    /\ convRet = NoConvRet
    /\ risk_analyzer = RiskAnalyzer
    /\ riskRet = NoRiskRet
    /\ payRet = NoPayRet
    /\ vibeRet = NoVibeRet

SpecDag == Init /\ [][DagNext]_vars

SpecSm == Init /\ [][SmNext]_vars

SpecLiq == Init /\ [][LiqNext]_vars

SpecEngine == Init /\ [][EngineNext]_vars

SpecCredit == Init /\ [][CreditNext]_vars

SpecBranch == Init /\ [][BranchNext]_vars

SpecTax == Init /\ [][TaxNext]_vars

SpecRerun == Init /\ [][RerunNext]_vars

SpecCurrency == Init /\ [][CurrencyNext]_vars

SpecRisk == Init /\ [][RiskNext]_vars

SpecYear == Init /\ [][YearNext]_vars

SpecSale == Init /\ [][SaleNext]_vars

SpecBehavioral == Init /\ [][BehavioralNext]_vars

SpecDensity == Init /\ [][DensityNext]_vars

SpecRates == Init /\ [][RatesNext]_vars

SpecPayment == Init /\ [][PaymentNext]_vars

\* a call that has started keeps running
SpecSort == Init /\ [][SortNext]_vars /\ WF_vars(SortLoop) /\ WF_vars(SortExit)

(***************************************************************************)
(* State manager: properties                                               *)
(***************************************************************************)

\* the snapshot store as values
SnapshotValues == [d \in DOMAIN snapshots |-> DeepValue(heap, snapshots[d])]

\* the objects reachable from a FinancialState reference
Reachable(h, r) == Range(RefsOf(h, r))

\* C5: restore_snapshot(D), after create_snapshot(D) and whatever updates,
\* snapshots of other days and restores followed it, succeeds and makes the
\* current state equal to the state that was current at create_snapshot(D).
C5_RestoreReproducesSnapshot ==
    (smRet.op = "restore_snapshot" /\ smRet.day \in DOMAIN captured) =>
        /\ smRet.ok
        /\ current_state # NoRef
        /\ DeepValue(heap, current_state) = captured[smRet.day]

\* day 0 has been restored while the store holds a later snapshot that
\* differs from it in day, balance, holdings and credit score
C5_Witness ==
    /\ smRet.op = "restore_snapshot" /\ smRet.ok /\ smRet.day = 0
    /\ {0, 1} \subseteq DOMAIN captured
    /\ captured[0].day = 0 /\ captured[1].day = 1
    /\ captured[0].balance # captured[1].balance
    /\ captured[0].assets # captured[1].assets
    /\ captured[0].credit_score # captured[1].credit_score
    /\ DeepValue(heap, current_state) = captured[0]

\* C6: update_state changes no stored snapshot, restore_snapshot changes
\* nothing in the snapshot store, and at no time is an object of the live
\* state (the state object, its asset list, its liability list) an object
\* of a stored snapshot.
C6_SnapshotsImmutable ==
    /\ [](\A d \in DOMAIN snapshots :
             current_state # NoRef =>
                Reachable(heap, current_state) \cap Reachable(heap, snapshots[d]) = {})
    /\ [][/\ smRet'.op \in {"update_state", "restore_snapshot"} =>
                /\ DOMAIN snapshots' = DOMAIN snapshots
                /\ \A d \in DOMAIN snapshots :
                      DeepValue(heap', snapshots'[d]) = DeepValue(heap, snapshots[d])
         ]_vars

\* an update after a restore: the live state differs from both snapshots
C6_Witness ==
    /\ smRet.op = "update_state" /\ smRet.ok
    /\ DOMAIN snapshots = {0, 1}
    /\ \A d \in DOMAIN snapshots :
          /\ DeepValue(heap, current_state).balance # SnapshotValues[d].balance
          /\ DeepValue(heap, current_state).assets # SnapshotValues[d].assets

(***************************************************************************)
(* Liquidation: properties                                                 *)
(***************************************************************************)

\* locked at a date: marked locked, and no unlock date or one still ahead
IsLockedAt(a, date) == a.is_locked /\ (~a.has_lock_until \/ date < a.lock_until)

\* the tier order Liquid, Volatile, Yield, Illiquid
TierRank(type) ==
    CASE type = "liquid" -> 1
      [] type = "volatile" -> 2
      [] type = "yield" -> 3
      [] type = "illiquid" -> 4

\* the unlocked assets of the last call, by position in the input
UnlockedAt == {i \in 1..Len(liqAssets) : ~IsLockedAt(liqAssets[i], liqRet.current_date)}

\* the unlocked assets that come before asset i in liquidation order
BeforeInOrder(i) ==
    {j \in UnlockedAt :
        \/ TierRank(liqAssets[j].type) < TierRank(liqAssets[i].type)
        \/ TierRank(liqAssets[j].type) = TierRank(liqAssets[i].type) /\ j < i}

RECURSIVE SaleValueOf(_)
SaleValueOf(S) ==
    IF S = {} THEN 0
    ELSE LET i == CHOOSE x \in S : TRUE
         IN  SaleValue(liqAssets[i]) + SaleValueOf(S \ {i})

Returned(i) == liqAssets[i] \in Range(liqRet.remaining_assets)

\* C2: an unlocked asset is liquidated exactly when the sale value of the
\* unlocked assets before it in the order Liquid, Volatile, Yield, Illiquid
\* (input order inside a tier) is below the required amount; every returned
\* asset is an input asset as it was, so no asset is liquidated in part.
C2_LiquidationOrderAndStop ==
    liqRet.called =>
        /\ \A i \in UnlockedAt :
              Returned(i) <=> SaleValueOf(BeforeInOrder(i)) >= liqRet.required_amount
        /\ Range(liqRet.remaining_assets) \subseteq Range(liqAssets)

\* an illiquid, a volatile and a liquid asset, passed in that order: the
\* liquid one raised 50, the volatile one 100, which met the 150 required
\* exactly, and the illiquid one came back
C2_Witness ==
    /\ liqRet.called
    /\ liqRet.required_amount = 150
    /\ Len(liqAssets) = 3
    /\ UnlockedAt = {1, 2, 3}
    /\ liqAssets[1].type = "illiquid"
    /\ liqAssets[2].type = "volatile" /\ liqAssets[2].sale_penalty = 0
    /\ liqAssets[3].type = "liquid" /\ liqAssets[3].sale_penalty = 50
    /\ liqRet.amount_raised = 150
    /\ liqRet.remaining_assets = <<liqAssets[1]>>

\* C3: liquidate_assets treats an asset as locked exactly when it is marked
\* locked and has no unlock date or one that has not arrived, and it returns
\* every such asset as it was, also when the rest cannot cover the amount.
C3_LockedNeverLiquidated ==
    liqRet.called =>
        \A i \in 1..Len(liqAssets) :
            /\ check_lock_status(liqAssets[i], liqRet.current_date)
                  <=> IsLockedAt(liqAssets[i], liqRet.current_date)
            /\ IsLockedAt(liqAssets[i], liqRet.current_date) => Returned(i)

\* the amount was not covered: the asset whose unlock date is still ahead
\* and the asset locked for good came back, the unlocked one was sold
C3_Witness ==
    /\ liqRet.called
    /\ liqRet.amount_raised < liqRet.required_amount
    /\ liqRet.current_date < LockDate
    /\ Len(liqAssets) = 3
    /\ \E i, j, k \in 1..3 :
          /\ liqAssets[i].is_locked /\ liqAssets[i].has_lock_until /\ Returned(i)
          /\ liqAssets[j].is_locked /\ ~liqAssets[j].has_lock_until /\ Returned(j)
          /\ ~liqAssets[k].is_locked /\ ~Returned(k)

(***************************************************************************)
(* Scheduler: properties                                                   *)
(***************************************************************************)

DepsOf(ns, name) == ns[NodeIndex(ns, name)].dependencies

\* every declared dependency names a node of the graph
HasAllDeps(ns) ==
    \A i \in 1..Len(ns) : ns[i].dependencies \subseteq NodeNameSet(ns)

\* a dependency cycle: a closed walk along dependency edges between nodes
HasCycle(ns) ==
    \E k \in 1..Len(ns) :
        \E p \in [1..k -> NodeNameSet(ns)] :
            /\ \A i \in 1..(k - 1) : p[i + 1] \in DepsOf(ns, p[i])
            /\ p[1] \in DepsOf(ns, p[k])

PositionIn(order, name) == CHOOSE i \in 1..Len(order) : order[i] = name

\* C7: on a graph whose dependencies all exist and that has no cycle,
\* topological_sort returns every node exactly once and each node after all
\* of its dependencies.
C7_SortOrdersAcyclicGraph ==
    (dagRet.op = "topological_sort" /\ HasAllDeps(nodes) /\ ~HasCycle(nodes)) =>
        /\ dagRet.kind = "order"
        /\ Len(dagRet.order) = Len(nodes)
        /\ Range(dagRet.order) = NodeNameSet(nodes)
        /\ \A n \in NodeNameSet(nodes) : \A dep \in DepsOf(nodes, n) :
              PositionIn(dagRet.order, dep) < PositionIn(dagRet.order, n)

\* the chain A -> B -> C registered in the order C, B, A and sorted to A, B, C
C7_Witness ==
    /\ dagRet.op = "topological_sort"
    /\ Len(nodes) = 3
    /\ nodes[1].name = "C" /\ nodes[1].dependencies = {"B"}
    /\ nodes[2].name = "B" /\ nodes[2].dependencies = {"A"}
    /\ nodes[3].name = "A" /\ nodes[3].dependencies = {}
    /\ dagRet.kind = "order"
    /\ dagRet.order = <<"A", "B", "C">>

\* C8 as stated: whenever the graph contains a cycle topological_sort fails
\* with the cycle error, and it fails with that error only when a cycle exists.
C8_CycleAlwaysCycleError ==
    dagRet.op = "topological_sort" =>
        /\ HasCycle(nodes) => (dagRet.kind = "cycle" /\ dagRet.order = <<>>)
        /\ dagRet.kind = "cycle" => HasCycle(nodes)

\* C8 amended: when every declared dependency names a node of the graph and
\* the graph contains a cycle (a self-dependency included), topological_sort
\* fails with the cycle error and returns no order; it fails with that error
\* only when a cycle exists.
C8_CycleErrorWhenDepsExist ==
    dagRet.op = "topological_sort" =>
        /\ (HasAllDeps(nodes) /\ HasCycle(nodes)) =>
              (dagRet.kind = "cycle" /\ dagRet.order = <<>>)
        /\ dagRet.kind = "cycle" => HasCycle(nodes)

\* a two-node cycle behind a node without dependencies: the sort has placed
\* one node before it found the cycle, and returns the error
C8_Witness ==
    /\ dagRet.op = "topological_sort"
    /\ dagRet.kind = "cycle"
    /\ Len(nodes) = 3
    /\ HasAllDeps(nodes)
    /\ \E n \in NodeNameSet(nodes) : DepsOf(nodes, n) = {}
    /\ \E x, y \in NodeNameSet(nodes) :
          x # y /\ x \in DepsOf(nodes, y) /\ y \in DepsOf(nodes, x)

\* C9: when some node declares a dependency that is not a node of the graph,
\* topological_sort fails with the missing-dependency error, returns no
\* order and leaves the graph as it was.
C9_MissingDependencyError ==
    [][(dagRet'.op = "topological_sort" /\ ~HasAllDeps(nodes)) =>
          (dagRet'.kind = "missing" /\ dagRet'.order = <<>> /\ nodes' = nodes)]_vars

\* the sort has failed on a graph that has a node without dependencies and
\* a node that depends on it and on a name that is no node
C9_Witness ==
    /\ dagRet.op = "topological_sort"
    /\ dagRet.kind = "missing"
    /\ \E a, b \in NodeNameSet(nodes) :
          DepsOf(nodes, a) = {} /\ DepsOf(nodes, b) = {a, "MISSING"}

\* C10: add_node with a name that exists fails and leaves the graph as it
\* was: same nodes, same functions, same dependencies, same count.
C10_DuplicateNodeRejected ==
    [][(dagRet'.op = "add_node" /\ dagRet'.name \in NodeNameSet(nodes)) =>
          (~dagRet'.ok /\ nodes' = nodes)]_vars

\* add_node has failed on a name whose node has dependencies
C10_Witness ==
    /\ dagRet.op = "add_node"
    /\ ~dagRet.ok
    /\ dagRet.name \in NodeNameSet(nodes)
    /\ DepsOf(nodes, dagRet.name) # {}

(***************************************************************************)
(* Determinism of full runs                                                *)
(***************************************************************************)

Done(e) == e \in DOMAIN engines /\ engines[e].run.phase = "done"

\* C1: two engines built from the same seed, configuration, registrations
\* and initial state that have each run the full horizon returned the same
\* balance_history, the same final_credit_score and the same
\* resilience_score_index; no draw is ever taken from the process-wide
\* generator, the one generator that outlives a day
C1_Determinism ==
    /\ np_random.pos = 0
    /\ \A a, b \in Engines :
           (Done(a) /\ Done(b) /\ inputs[a] = inputs[b]) =>
               /\ engines[a].result.balance_history = engines[b].result.balance_history
               /\ engines[a].result.final_credit_score = engines[b].result.final_credit_score
               /\ engines[a].result.resilience_score_index
                       = engines[b].result.resilience_score_index

\* both engines ran the household that sells a volatile asset to cover its
\* deficit over the longest horizon, from the same inputs
C1_Witness ==
    /\ Done(1) /\ Done(2)
    /\ inputs[1] = inputs[2]
    /\ inputs[1].scenario = "deficit"
    /\ Len(engines[1].result.balance_history) = MaxHorizon
    /\ Len(engines[2].result.balance_history) = MaxHorizon
    /\ \E i \in 1..MaxHorizon : engines[1].result.balance_history[i] < 0

(***************************************************************************)
(* The range of the credit score                                           *)
(***************************************************************************)

ScoreInRange(score) == score >= MinScore /\ score <= MaxScore

\* C4: in every reachable state the score of every credit calculator and
\* the credit_score of every committed FinancialState are within
\* [300, 850], whatever debt ratio (the infinite one included), balance,
\* asset total and default flag update_score was called with
C4_CreditScoreInRange ==
    \A e \in DOMAIN engines :
        /\ ScoreInRange(engines[e].credit_calculator.score)
        /\ \A i \in 1..Len(engines[e].state_manager.current_state) :
                ScoreInRange(engines[e].state_manager.current_state[i].credit_score)

\* after a day that drove the score against the floor, update_score was
\* called with an infinite debt ratio, a negative balance and a default
C4_Witness ==
    /\ Built(1)
    /\ engines[1].run.day > 0
    /\ engines[1].state_manager.current_state # <<>>
    /\ engines[1].state_manager.current_state[1].credit_score = MinScore
    /\ engines[1].credit_calculator.score = MinScore
    /\ \E i \in 1..Len(creditCalls) :
            /\ creditCalls[i].op = "update_score"
            /\ creditCalls[i].debt_ratio.inf
            /\ creditCalls[i].balance < 0
            /\ creditCalls[i].had_default

(***************************************************************************)
(* Termination of the sort                                                 *)
(***************************************************************************)

\* the graph is a linear chain: every node but the first depends on the
\* node registered just before it, and on nothing else
IsChain(ns) ==
    /\ Len(ns) > 0
    /\ ns[1].dependencies = {}
    /\ \A i \in 2..Len(ns) : ns[i].dependencies = {ns[i - 1].name}

\* C11: a topological_sort call that has entered its loop eventually
\* returns or raises, on cyclic and acyclic graphs alike, with the outcome
\* of topological_sort; on a linear chain of n nodes it returns n nodes
C11_SortTerminates ==
    /\ (sort.pc = "while") ~> (sort.pc \in {"returned", "raised"})
    /\ [](sort.pc = "returned" =>
            /\ topological_sort(nodes).kind = "order"
            /\ topological_sort(nodes).order = sort.result)
    /\ [](sort.pc = "raised" => topological_sort(nodes).kind # "order")
    /\ []((sort.pc = "returned" /\ IsChain(nodes)) => Len(sort.result) = Len(nodes))

\* the call returned on a chain of three nodes
C11_Witness ==
    /\ sort.pc = "returned"
    /\ IsChain(nodes)
    /\ Len(nodes) = 3
    /\ Len(sort.result) = 3

\* the call raised on a graph with a cycle after at least one iteration
C11_WitnessCycle ==
    /\ sort.pc = "raised"
    /\ HasAllDeps(nodes)
    /\ HasCycle(nodes)
    /\ sort.result # <<>>

(***************************************************************************)
(* Branch engines                                                          *)
(***************************************************************************)

\* the engine e was at construction and initialization, before any run
EngineAtStart(e) ==
    IF "branch_of" \in DOMAIN inputs[e] THEN inputs[e].engine
    ELSE initialize_from(build_engine(inputs[e]), inputs[e])

\* no object is held by two engines (none is in the initial state)
NoSharedObject ==
    \A e, f \in DOMAIN loc :
        e # f => \A a, b \in Attributes : loc[e][a] # loc[f][b]

\* a step changes at most one engine, and a step that creates an engine
\* changes no engine that existed
OneEngineChanges ==
    /\ \A e \in DOMAIN engines :
            DOMAIN engines' # DOMAIN engines => engines'[e] = engines[e]
    /\ \A e, f \in DOMAIN engines :
            (e # f /\ DOMAIN engines' = DOMAIN engines /\ engines'[e] # engines[e])
                => engines'[f] = engines[f]

\* the results packet of a run that ends is the packet of the same engine
\* run alone
ResultAsAlone ==
    \A e \in DOMAIN engines :
        (~Done(e) /\ engines'[e].run.phase = "done")
            => engines'[e].result = run_simulation(EngineAtStart(e)).result

\* C12: a branch engine shares no object with its parent or its siblings;
\* whatever the interleaving of the engines' days, a step of one engine
\* (a day, a run's start or end, the creation of a branch) leaves every
\* other engine as it was, current state, snapshot store, histories, income
\* and expense lists, configuration, payment history and tax accumulators
\* included, and each engine's results are those of the engine run alone
C12_BranchIsolation == [][NoSharedObject' /\ OneEngineChanges /\ ResultAsAlone]_vars

\* the parent and a branch are in the middle of their runs while the other
\* branch, created with other income sources, has finished its own
C12_Witness ==
    /\ DOMAIN engines = {BranchParent} \cup Branches
    /\ engines[BranchParent].run.phase = "running"
    /\ engines[BranchParent].run.day > 1
    /\ engines[2].run.phase = "running"
    /\ engines[2].run.day > 1
    /\ inputs[2].overrides = EmptyKw
    /\ Done(3)
    /\ inputs[3].overrides # EmptyKw
    /\ engines[3].result.total_days = MaxHorizon
    /\ engines[3].result.balance_history # run_simulation(inputs[2].engine).result.balance_history

\* the step is a call of branch_from_snapshot for a day the parent has no
\* snapshot of
BranchCallNoSnapshot ==
    /\ ~branchRet.called
    /\ branchRet'.called
    /\ branchRet'.snapshot_day
            \notin DOMAIN engines[branchRet'.parent].state_manager.snapshots

\* C13: branch_from_snapshot(D) on an engine that has no snapshot for day D
\* fails with an error and creates no branch engine; the engine's current
\* state, snapshot store and histories, and every other engine, are as they
\* were before the call
C13_BranchNoSnapshot ==
    [][BranchCallNoSnapshot =>
          /\ ~branchRet'.ok
          /\ branchRet'.raised = "ValueError"
          /\ DOMAIN engines' = DOMAIN engines
          /\ branchRet'.child \notin DOMAIN engines'
          /\ engines' = engines
          /\ loc' = loc]_vars

\* the call failed on a parent in the middle of its run, with a snapshot of
\* day 0 but none of the day asked for, and one branch already made
C13_Witness ==
    /\ branchRet.called
    /\ ~branchRet.ok
    /\ branchRet.snapshot_day = 30
    /\ branchRet.child = 3
    /\ DOMAIN engines = {BranchParent, 2}
    /\ engines[BranchParent].run.phase = "running"
    /\ DOMAIN engines[BranchParent].state_manager.snapshots = {0}
    /\ Len(engines[BranchParent].balance_history) > 1

(***************************************************************************)
(* State manager: the calls that fail                                      *)
(***************************************************************************)

\* C14: restore_snapshot(D) on a manager that holds no snapshot for day D
\* fails with the snapshot-not-found error, and the current state and the
\* snapshot store (their objects included) are as they were before the call
C14_RestoreNoSnapshot ==
    [][(smRet'.op = "restore_snapshot" /\ smRet'.day \notin DOMAIN snapshots) =>
          /\ ~smRet'.ok
          /\ smRet'.err = "No snapshot found"
          /\ current_state' = current_state
          /\ snapshots' = snapshots
          /\ heap' = heap]_vars

\* the restore of a day without a snapshot failed on a manager that has a
\* current state and a snapshot of another day
C14_Witness ==
    /\ smRet.op = "restore_snapshot"
    /\ ~smRet.ok
    /\ smRet.day = 1
    /\ DOMAIN snapshots = {0}
    /\ current_state # NoRef
    /\ DeepValue(heap, current_state) # DeepValue(heap, snapshots[0])

\* C15: on a manager initialize_state has not been called on, update_state,
\* create_snapshot and restore_snapshot each fail with an error, and the
\* manager still has no current state and an empty snapshot store
C15_UninitializedFails ==
    [][(current_state = NoRef
            /\ smRet'.op \in {"update_state", "create_snapshot", "restore_snapshot"}) =>
          /\ ~smRet'.ok
          /\ smRet'.err \in {"State not initialized", "No snapshot found"}
          /\ snapshots = EmptyKw
          /\ current_state' = NoRef
          /\ snapshots' = EmptyKw
          /\ heap' = heap]_vars

\* create_snapshot failed on a manager without a state, after an update_state
\* and a restore_snapshot had failed on it
C15_Witness ==
    /\ current_state = NoRef
    /\ snapshots = EmptyKw
    /\ smRet.op = "create_snapshot"
    /\ ~smRet.ok
    /\ smRet.err = "State not initialized"
    /\ smRet.day = 1

(***************************************************************************)
(* Taxation                                                                *)
(***************************************************************************)

\* the thresholds of the table ascend
IsAscending(brackets) ==
    \A i \in 1..(Len(brackets) - 1) : brackets[i].threshold <= brackets[i + 1].threshold

\* the part of the income between bracket i's threshold and the next
\* bracket's threshold; for the top bracket, all income above its threshold
BracketPart(brackets, i, income) ==
    IF i < Len(brackets)
    THEN Max(0, Min(income, brackets[i + 1].threshold) - brackets[i].threshold)
    ELSE Max(0, income - brackets[i].threshold)

\* the sum over the brackets of rate times part
RECURSIVE BracketSum(_, _, _)
BracketSum(brackets, i, income) ==
    IF i > Len(brackets) THEN 0
    ELSE (BracketPart(brackets, i, income) * brackets[i].rate) \div 100
            + BracketSum(brackets, i + 1, income)

\* what a calculate_income_tax call returned is the bracket sum, zero below
\* the first threshold, and no less than the tax on any lower income
IncomeTaxAsClaimed(call) ==
    /\ call.ret = BracketSum(tax_engine.brackets, 1, call.arg)
    /\ call.arg < tax_engine.brackets[1].threshold => call.ret = 0
    /\ \A lower \in Incomes :
            lower <= call.arg => calculate_income_tax(tax_engine, lower) <= call.ret

\* C16: on every ascending bracket table and for every income,
\* calculate_income_tax returns the sum over the brackets of rate times the
\* part of the income between the bracket's threshold and the next one's,
\* returns zero for an income below the first threshold, and never returns
\* less for a higher income
C16_IncomeTaxIsBracketSum ==
    \A i \in 1..Len(taxCalls) :
        (taxCalls[i].op = "calculate_income_tax" /\ IsAscending(tax_engine.brackets))
            => IncomeTaxAsClaimed(taxCalls[i])

\* C16, on the tables whose lowest threshold is zero: there the returned
\* tax is the bracket sum and never decreases with the income
C16_BracketSumFromZero ==
    \A i \in 1..Len(taxCalls) :
        (/\ taxCalls[i].op = "calculate_income_tax"
         /\ IsAscending(tax_engine.brackets)
         /\ tax_engine.brackets[1].threshold = 0)
            => IncomeTaxAsClaimed(taxCalls[i])

\* an income that reaches the top bracket of the default table was taxed
\* in three brackets
C16_Witness ==
    /\ tax_engine.brackets = TaxBrackets
    /\ \E i \in 1..Len(taxCalls) :
            /\ taxCalls[i].op = "calculate_income_tax"
            /\ taxCalls[i].arg = 25000000
            /\ taxCalls[i].ret = 500000 + 2000000 + 1500000

\* the realized gains recorded by the calls before call i, since the last
\* reset_annual_gains before it
RECURSIVE RealizedBefore(_, _)
RealizedBefore(calls, i) ==
    IF i <= 1 THEN 0
    ELSE LET c == calls[i - 1]
         IN  IF c.op = "reset_annual_gains" THEN 0
             ELSE IF c.op = "record_realized_gain" THEN RealizedBefore(calls, i - 1) + c.arg
             ELSE RealizedBefore(calls, i - 1)

\* C17: a calculate_capital_gains_tax call returns a positive tax exactly
\* when the realized gains recorded so far sum to more than zero, and zero
\* when no record_realized_gain call came before it, whatever unrealized
\* gains were recorded; the realized accumulator is the sum of the realized
\* gains recorded, so that record_unrealized_gain never changes it
C17_CapitalGainsOnRealizedOnly ==
    /\ tax_engine.realized_gains = RealizedBefore(taxCalls, Len(taxCalls) + 1)
    /\ \A i \in 1..Len(taxCalls) :
            taxCalls[i].op = "calculate_capital_gains_tax" =>
                /\ (taxCalls[i].ret > 0) <=> (RealizedBefore(taxCalls, i) > 0)
                /\ (\A j \in 1..(i - 1) : taxCalls[j].op # "record_realized_gain")
                        => taxCalls[i].ret = 0

\* an unrealized gain, then a loss, were recorded and the tax returned was
\* zero
C17_Witness ==
    /\ Len(taxCalls) = 3
    /\ taxCalls[1].op = "record_unrealized_gain" /\ taxCalls[1].arg = 1000000
    /\ taxCalls[2].op = "record_unrealized_gain" /\ taxCalls[2].arg = -200000
    /\ taxCalls[3].op = "calculate_capital_gains_tax" /\ taxCalls[3].ret = 0
    /\ tax_engine.unrealized_gains = 800000
    /\ tax_engine.realized_gains = 0

\* a realized gain was recorded and the tax returned was 15 % of it
C17_WitnessRealized ==
    /\ Len(taxCalls) = 3
    /\ taxCalls[1].op = "record_unrealized_gain"
    /\ taxCalls[2].op = "record_realized_gain" /\ taxCalls[2].arg = 1000000
    /\ taxCalls[3].op = "calculate_capital_gains_tax" /\ taxCalls[3].ret = 150000

(***************************************************************************)
(* Currency conversion                                                     *)
(***************************************************************************)

\* the currencies the manager is configured with
Configured == DOMAIN currency_manager.base_rates

\* C18: a convert call fails with the unsupported-currency error if its
\* source or its target is no configured currency, and the failed call
\* changes no rate; a call whose currencies are configured and equal returns
\* the amount unchanged
C18_UnsupportedCurrencyFails ==
    [][convRet'.op = "convert" =>
          /\ (convRet'.from_currency \notin Configured
                    \/ convRet'.to_currency \notin Configured)
                => /\ ~convRet'.ok
                   /\ convRet'.raised = "ValueError"
                   /\ currency_manager' = currency_manager
          /\ (/\ convRet'.from_currency \in Configured
              /\ convRet'.to_currency = convRet'.from_currency)
                => /\ convRet'.ok
                   /\ convRet'.value = convRet'.amount]_vars

\* C18, for calls whose two currencies differ: such a call fails with the
\* error if either currency is not configured, and changes no rate; a call
\* whose currencies are equal returns the amount unchanged, configured or not
C18_UnsupportedPairFails ==
    [][convRet'.op = "convert" =>
          /\ (/\ convRet'.from_currency # convRet'.to_currency
              /\ (convRet'.from_currency \notin Configured
                    \/ convRet'.to_currency \notin Configured))
                => /\ ~convRet'.ok
                   /\ convRet'.raised = "ValueError"
                   /\ currency_manager' = currency_manager
          /\ convRet'.to_currency = convRet'.from_currency
                => /\ convRet'.ok
                   /\ convRet'.value = convRet'.amount
                   /\ currency_manager' = currency_manager]_vars

\* a conversion into a currency that is not configured failed after the
\* rates had moved
C18_Witness ==
    /\ convRet.op = "convert"
    /\ ~convRet.ok
    /\ convRet.from_currency = "EUR"
    /\ convRet.to_currency = "PKR"
    /\ "PKR" \notin Configured
    /\ convRet.day = MaxRateDays
    /\ currency_manager.base_rates["EUR"] # DefaultRate("EUR")

(***************************************************************************)
(* The results packet                                                      *)
(***************************************************************************)

\* the days of a balance history that ended below zero
NegativeDays(h) == {d \in 1..Len(h) : h[d] < 0}

\* deficit days over days, in per-mille; 0 when no day was recorded
DeficitShare(h) ==
    IF h = <<>> THEN 0 ELSE (Cardinality(NegativeDays(h)) * 1000) \div Len(h)

\* C19: the balance a day records is the balance the day committed; the
\* analyzer's bankruptcy_probability is the number of recorded days that
\* ended below zero over the number of recorded days, 0 when there is none,
\* and so is the one in the results packet; it is above 0 exactly when a
\* day ended below zero
C19_BankruptcyProbability ==
    \A e \in DOMAIN engines :
        LET eng == engines[e]
            h == eng.balance_history
            bp == bankruptcy_probability(eng.risk_analyzer)
        IN  /\ eng.risk_analyzer.total_days = Len(h)
            /\ (h # <<>> /\ eng.raised = "")
                    => eng.state_manager.current_state[1].balance = Last(h)
            /\ bp = DeficitShare(h)
            /\ (bp > 0) <=> (NegativeDays(h) # {})
            /\ h = <<>> => bp = 0
            /\ Done(e) =>
                    /\ Len(h) = eng.config.horizon_days
                    /\ eng.result.bankruptcy_probability = DeficitShare(h)
                    /\ (eng.result.bankruptcy_probability > 0)
                            <=> (NegativeDays(eng.result.balance_history) # {})

\* the run of the test's deficit scenario ended with every day below zero
C19_Witness ==
    \E e \in DOMAIN engines :
        /\ Done(e)
        /\ inputs[e].scenario = "test_deficit"
        /\ inputs[e].horizon_days = MaxHorizon
        /\ engines[e].result.balance_history[1] = 100000 + 100000 - 300000
        /\ engines[e].result.bankruptcy_probability = 1000

\* a run ended with days above and days below zero
C19_WitnessMixed ==
    \E e \in DOMAIN engines :
        /\ Done(e)
        /\ engines[e].result.bankruptcy_probability > 0
        /\ engines[e].result.bankruptcy_probability < 1000

\* the histories of the results packet are those of the engine
PacketHistories(eng) ==
    /\ eng.result.balance_history = eng.balance_history
    /\ eng.result.credit_history = eng.credit_history
    /\ eng.result.nav_history = eng.nav_history
    /\ eng.result.liquidity_history = eng.liquidity_history

\* each history of the results packet has total_days entries, and
\* total_days is the horizon of the configuration
PacketHoldsTotalDays(eng) ==
    /\ eng.result.total_days = eng.config.horizon_days
    /\ Len(eng.result.balance_history) = eng.result.total_days
    /\ Len(eng.result.credit_history) = eng.result.total_days
    /\ Len(eng.result.nav_history) = eng.result.total_days
    /\ Len(eng.result.liquidity_history) = eng.result.total_days

\* the histories of engine e after the step are those before it, or those
\* with the values the state manager holds after the step appended
DayAppended(e) ==
    LET old == engines[e]
        new == engines'[e]
        committed == new.state_manager.current_state[1]
    IN  \/ /\ new.balance_history = old.balance_history
           /\ new.credit_history = old.credit_history
           /\ new.nav_history = old.nav_history
           /\ new.liquidity_history = old.liquidity_history
        \/ /\ new.run.day = old.run.day + 1
           /\ new.balance_history = Append(old.balance_history, committed.balance)
           /\ new.credit_history = Append(old.credit_history, committed.credit_score)
           /\ new.nav_history = Append(old.nav_history, calculate_nav(new.state_manager))
           /\ new.liquidity_history
                = Append(old.liquidity_history,
                         calculate_liquidity_ratio(new.state_manager))
           /\ committed.day = old.run.day

\* C20: in every results packet run_simulation returns, each of the four
\* histories holds total_days entries and total_days is the configured
\* horizon
C20_HistoriesHoldTotalDays ==
    \A e \in DOMAIN engines : Done(e) => PacketHoldsTotalDays(engines[e])

\* C20, for the first run_simulation call on an engine: its packet's
\* histories hold total_days entries each, total_days is the horizon, and
\* entry d is what day d committed: every simulated day appends to each
\* history the value of the state it committed, and no step changes an
\* entry
C20_FirstRunHistories ==
    [][\A e \in DOMAIN engines' :
          /\ e \in DOMAIN engines => DayAppended(e)
          /\ (engines'[e].run.phase = "running" /\ engines'[e].run.calls = 1)
                => Len(engines'[e].balance_history) = engines'[e].run.day
          /\ (engines'[e].run.phase = "done" /\ engines'[e].run.calls = 1)
                => /\ PacketHistories(engines'[e])
                   /\ PacketHoldsTotalDays(engines'[e])]_vars

\* a first run over the longest horizon has returned its packet
C20_Witness ==
    \E e \in DOMAIN engines :
        /\ Done(e)
        /\ engines[e].run.calls = 1
        /\ engines[e].config.horizon_days = MaxHorizon
        /\ Len(engines[e].result.balance_history) = MaxHorizon
        /\ engines[e].result.balance_history[1] # engines[e].result.balance_history[MaxHorizon]

\* a second run on the same engine has returned a packet whose histories
\* hold the days of both runs
C20_WitnessSecondRun ==
    \E e \in DOMAIN engines :
        /\ Done(e)
        /\ engines[e].run.calls = 2
        /\ engines[e].result.total_days = engines[e].config.horizon_days
        /\ Len(engines[e].result.balance_history) = 2 * engines[e].config.horizon_days

\* the tax on an income equal to the only threshold of a one-bracket table
\* was not zero
C16_WitnessAboveZero ==
    /\ tax_engine.brackets = <<[threshold |-> 500000, rate |-> 10]>>
    /\ \E i \in 1..Len(taxCalls) :
            /\ taxCalls[i].op = "calculate_income_tax"
            /\ taxCalls[i].arg = 500000
            /\ taxCalls[i].ret = 50000

\* a conversion from a currency that is not configured into itself returned
\* the amount
C18_WitnessSameUnconfigured ==
    /\ convRet.op = "convert"
    /\ convRet.ok
    /\ convRet.from_currency = "JPY"
    /\ convRet.to_currency = "JPY"
    /\ "JPY" \notin Configured
    /\ convRet.amount = 250
    /\ convRet.value = 250

(***************************************************************************)
(* Recorded ratios                                                         *)
(***************************************************************************)

\* a ratio in percent that lies in [0, 1]
IsRatioPct(r) == r >= 0 /\ r <= 100

\* C21 as stated: every liquidity ratio an engine records, and the
\* final_liquidity_ratio of every results packet, lies in [0, 1], and the
\* ratio recorded for a state whose cash plus asset value is zero is 0.
C21_LiquidityRatioInRange ==
    \A e \in DOMAIN engines :
        LET eng == engines[e]
            sm == eng.state_manager
        IN  /\ \A i \in DOMAIN eng.liquidity_history :
                    IsRatioPct(eng.liquidity_history[i])
            /\ eng.result.generated => IsRatioPct(eng.result.final_liquidity_ratio)
            /\ (eng.liquidity_history # <<>> /\ sm.current_state # <<>>
                    /\ sm.current_state[1].balance
                           + calculate_total_value(sm.current_state[1].assets) = 0)
                  => Last(eng.liquidity_history) = 0

\* C21, what holds: the ratio recorded for a day that ended with a cash
\* balance of zero or more lies in [0, 1], and the ratio recorded for a
\* state whose cash plus asset value is zero is 0.
C21_LiquidityRatioWhenSolvent ==
    \A e \in DOMAIN engines :
        LET eng == engines[e]
            sm == eng.state_manager
        IN  /\ \A i \in DOMAIN eng.liquidity_history :
                    eng.balance_history[i] >= 0 => IsRatioPct(eng.liquidity_history[i])
            /\ (eng.result.generated /\ eng.result.final_balance >= 0)
                  => IsRatioPct(eng.result.final_liquidity_ratio)
            /\ (eng.liquidity_history # <<>> /\ sm.current_state # <<>>
                    /\ sm.current_state[1].balance
                           + calculate_total_value(sm.current_state[1].assets) = 0)
                  => Last(eng.liquidity_history) = 0

\* a day ended with negative cash while a locked asset remained, and the
\* ratio recorded for it is outside [0, 1]
C21_Witness ==
    \E e \in DOMAIN engines :
        LET eng == engines[e]
        IN  /\ eng.liquidity_history # <<>>
            /\ eng.state_manager.current_state # <<>>
            /\ eng.state_manager.current_state[1].balance < 0
            /\ eng.state_manager.current_state[1].assets # <<>>
            /\ ~IsRatioPct(Last(eng.liquidity_history))

\* a day ended with cash plus asset value of zero and a recorded ratio of 0
C21_WitnessZero ==
    \E e \in DOMAIN engines :
        LET eng == engines[e]
        IN  /\ eng.liquidity_history # <<>>
            /\ eng.state_manager.current_state # <<>>
            /\ eng.state_manager.current_state[1].balance
                   + calculate_total_value(eng.state_manager.current_state[1].assets) = 0
            /\ Last(eng.liquidity_history) = 0

\* a drawdown in per-mille of the peak that lies in [0, 1]
IsRatioPermille(r) == r >= 0 /\ r <= 1000

\* C22 as stated: the worst_drawdown the risk analyzer holds and reports
\* lies in [0, 1] after any sequence of recorded balances.
C22_WorstDrawdownInRange ==
    /\ IsRatioPermille(risk_analyzer.worst_drawdown)
    /\ riskRet.called => IsRatioPermille(riskRet.worst_drawdown)

\* C22, what holds: worst_drawdown is never negative, no recorded day
\* lowers it, snapshot() reports the value held, and it is at most 1 as
\* long as no recorded balance was negative.
C22_WorstDrawdownMonotone ==
    [][/\ risk_analyzer'.worst_drawdown >= 0
       /\ risk_analyzer'.total_days = risk_analyzer.total_days + 1
            => risk_analyzer'.worst_drawdown >= risk_analyzer.worst_drawdown
       /\ (\A i \in DOMAIN risk_analyzer'.balance_history :
                risk_analyzer'.balance_history[i] >= 0)
            => risk_analyzer'.worst_drawdown <= 1000
       /\ riskRet'.called /\ riskRet' # riskRet
            => riskRet'.worst_drawdown = risk_analyzer.worst_drawdown]_vars

\* a balance below zero was recorded after a positive peak, and the worst
\* drawdown held is above 1
C22_Witness ==
    /\ risk_analyzer.peak_balance > 0
    /\ \E i \in DOMAIN risk_analyzer.balance_history :
            risk_analyzer.balance_history[i] < 0
    /\ risk_analyzer.worst_drawdown > 1000
    /\ riskRet.called
    /\ riskRet.worst_drawdown > 1000

(***************************************************************************)
(* The growth scenario                                                     *)
(***************************************************************************)

\* engine e was built as the test suite builds it and given the horizon
GrowthEngine(e, horizon) ==
    /\ e \in DOMAIN engines
    /\ inputs[e].scenario = "growth"
    /\ inputs[e].horizon_days = horizon

\* the balance day d of the scenario ends with when no asset is sold: the
\* initial balance, the net monthly income of days 0, 30, ..., and the loan
\* payments of days 30, 60, ...
GrowthBalance(d) ==
    1000000 + (500000 - 250000) * (d \div 30 + 1) - 40000 * (d \div 30)

\* C23: the engine of the test suite (balance 10,000, monthly income 5,000
\* and expense 2,500, a liquid asset of 5,000, a volatile one of 3,000, a
\* liability of 20,000 at 5 % paid 400 a month), run over 365 days, returns
\* a final balance above 10,000 under every sequence of asset shocks: no
\* day ends below zero, so both assets are still held and every day's
\* balance is what the cash flows alone make it.
C23_GrowthFinalBalance ==
    \A e \in DOMAIN engines :
        GrowthEngine(e, GrowthHorizon) =>
            LET eng == engines[e]
            IN  /\ \A i \in DOMAIN eng.balance_history :
                        /\ eng.balance_history[i] >= 0
                        /\ eng.balance_history[i] = GrowthBalance(i - 1)
                /\ eng.state_manager.current_state # <<>>
                      => Len(eng.state_manager.current_state[1].assets) = 2
                /\ eng.result.generated =>
                      /\ Len(eng.result.balance_history) = GrowthHorizon
                      /\ eng.result.final_balance > 1000000

\* a run of 365 days returned, with a final balance above 10,000 and both
\* assets moved by their shocks
C23_Witness ==
    \E e \in DOMAIN engines :
        /\ GrowthEngine(e, GrowthHorizon)
        /\ engines[e].result.generated
        /\ engines[e].result.final_balance > 1000000
        /\ engines[e].state_manager.current_state[1].assets[1].value # 500000
        /\ engines[e].state_manager.current_state[1].assets[2].value # 300000

(***************************************************************************)
(* The steps of a day                                                      *)
(***************************************************************************)

\* step a comes before step b in the order
Before(order, a, b) ==
    /\ a \in Range(order)
    /\ b \in Range(order)
    /\ PositionIn(order, a) < PositionIn(order, b)

\* the order holds the eleven steps once each, respects the dependencies
\* the engine declared and the precedences of the day, and ends with the
\* snapshot step
IsDayOrder(eng, order) ==
    /\ Len(order) = 11
    /\ Range(order) = {DagRegistrations[i][1] : i \in DOMAIN DagRegistrations}
    /\ \A i \in DOMAIN eng.dag : \A dep \in eng.dag[i].dependencies :
            Before(order, dep, eng.dag[i].name)
    /\ \A b \in {"income_expenses", "asset_valuation", "liability_accrual"} :
            Before(order, "exchange_rates", b)
    /\ \A b \in {"monthly_payments", "annual_tax"} :
            Before(order, "income_expenses", b)
    /\ \A a \in {"monthly_payments", "annual_tax", "asset_valuation"} :
            Before(order, a, "deficit_liquidation")
    /\ Before(order, "deficit_liquidation", "credit_update")
    /\ Before(order, "credit_update", "commit_state")
    /\ Before(order, "commit_state", "metrics_tracking")
    /\ order[11] = "snapshot"

\* the order every engine in a run resolved is a day order, and the steps
\* its last simulated day executed are that order
RunsInDayOrder ==
    \A e \in DOMAIN engines :
        LET run == engines[e].run
        IN  run.phase \in {"running", "done"} =>
                /\ IsDayOrder(engines[e], run.execution_order)
                /\ run.day > 0 => run.executed = run.execution_order

\* no day of a run changes the order the run resolved
OrderResolvedOnce ==
    \A e \in DOMAIN engines :
        (engines[e].run.phase = "running" /\ e \in DOMAIN engines')
            => engines'[e].run.execution_order = engines[e].run.execution_order

\* C24: every simulated day executes the eleven steps once each in one
\* order that respects every declared dependency (exchange rates first;
\* payments and tax after income and expenses; liquidation after payments,
\* tax and valuation; then credit update, the one commit, metrics, and the
\* snapshot step last); the order is resolved before day 0 and is the same
\* on every day of the run.
C24_StepsInFixedOrder == [][RunsInDayOrder' /\ OrderResolvedOnce]_vars

\* an engine has simulated two days or more, the last in the resolved order
C24_Witness ==
    \E e \in DOMAIN engines :
        /\ engines[e].run.phase = "running"
        /\ engines[e].run.day >= 2
        /\ Len(engines[e].run.executed) = 11
        /\ engines[e].run.executed = engines[e].run.execution_order

(***************************************************************************)
(* What a simulated day does to the committed state                        *)
(***************************************************************************)

\* engine e simulates its day d to the end in this step
SimulatesDay(e, d) ==
    /\ e \in DOMAIN engines
    /\ e \in DOMAIN engines'
    /\ engines[e].run.phase = "running"
    /\ engines[e].run.day = d
    /\ engines'[e].run.day = d + 1

\* the state committed before the day and the state the day commits
Committed(e) == engines[e].state_manager.current_state[1]

CommittedNext(e) == engines'[e].state_manager.current_state[1]

\* the day's income minus its expenses, at the day's exchange rates
NetFlow(e, d) == process_income(engines'[e], d) - process_expenses(engines'[e], d)

RECURSIVE SumMonthlyPayments(_)
SumMonthlyPayments(liabilities) ==
    IF liabilities = <<>> THEN 0
    ELSE Head(liabilities).monthly_payment + SumMonthlyPayments(Tail(liabilities))

\* the assets of the day after valuation, before any is sold
Valued(e, d) ==
    update_asset_values(Committed(e).assets, d, engines[e].asset_manager.seed,
                        np_random).assets

\* what the sale of assets adds to a balance on date d
Raised(e, d, balance) ==
    IF balance < 0
    THEN liquidate_assets(Valued(e, d), -balance, engines[e].run.current_date).amount_raised
    ELSE 0

IsPaymentDay(d) == d % 30 = 0 /\ d > 0

IsTaxDay(d) == d % 365 = 0 /\ d > 0

\* C25: on a day index that is a positive multiple of 30 the sum of the
\* liabilities' monthly payments is deducted from the cash balance and one
\* punctuality entry is recorded, on time exactly when the balance after
\* the deduction is zero or more; on every other day (day 0 included)
\* nothing is deducted for payments and no entry is recorded.
C25_MonthlyPayments ==
    [][\A e \in DOMAIN engines : \A d \in 0..engines[e].config.horizon_days :
          SimulatesDay(e, d) =>
            LET h == engines[e].credit_calculator.payment_history
                hNext == engines'[e].credit_calculator.payment_history
                flows == Committed(e).balance + NetFlow(e, d)
                paid == flows - SumMonthlyPayments(Committed(e).liabilities)
            IN  IF IsPaymentDay(d)
                THEN /\ hNext = IF Len(h) < PaymentWindow
                                THEN Append(h, paid >= 0)
                                ELSE Append(Tail(h), paid >= 0)
                     /\ ~IsTaxDay(d) =>
                            CommittedNext(e).balance = paid + Raised(e, d, paid)
                ELSE /\ hNext = h
                     /\ ~IsTaxDay(d) =>
                            CommittedNext(e).balance = flows + Raised(e, d, flows)]_vars

\* day 30 was simulated: one engine paid on time, another paid late
C25_Witness ==
    \E e \in DOMAIN engines :
        /\ engines[e].run.day = 31
        /\ engines[e].credit_calculator.payment_history = <<TRUE>>
        /\ Len(engines[e].state_manager.current_state[1].liabilities) = 1
        /\ engines[e].balance_history[31]
              = engines[e].balance_history[30] + 500000 - 250000 - 40000

\* day 30 was simulated and the payment left the balance below zero: the
\* entry recorded is late
C25_WitnessLate ==
    \E e \in DOMAIN engines :
        /\ engines[e].run.day = 31
        /\ engines[e].credit_calculator.payment_history = <<FALSE>>
        /\ engines[e].balance_history[31] < 0

\* C26: on a day index that is a positive multiple of 365 the annual tax on
\* the income accumulated since the last settlement and on the realized
\* gains is charged to the cash balance, and the income accumulator and
\* both gain accumulators are reset; on every other day (day 0 included)
\* no tax is charged, the income accumulator grows by the day's income and
\* neither gain accumulator is reset.
C26_AnnualTax ==
    [][\A e \in DOMAIN engines : \A d \in 0..engines[e].config.horizon_days :
          SimulatesDay(e, d) =>
            LET acc == engines[e].run.annual_income_accumulator + process_income(engines'[e], d)
                t == engines[e].tax_engine
                paid == Committed(e).balance + NetFlow(e, d)
                          - (IF IsPaymentDay(d)
                             THEN SumMonthlyPayments(Committed(e).liabilities) ELSE 0)
                taxed == paid - apply_annual_tax(t, acc)
            IN  IF IsTaxDay(d)
                THEN /\ CommittedNext(e).balance = taxed + Raised(e, d, taxed)
                     /\ engines'[e].run.annual_income_accumulator = 0
                     /\ engines'[e].tax_engine.unrealized_gains = 0
                     /\ taxed >= 0 => engines'[e].tax_engine.realized_gains = 0
                ELSE /\ CommittedNext(e).balance = paid + Raised(e, d, paid)
                     /\ engines'[e].run.annual_income_accumulator = acc
                     /\ engines'[e].tax_engine.unrealized_gains = t.unrealized_gains
                     /\ engines'[e].tax_engine.realized_gains >= t.realized_gains]_vars

\* day 365 was simulated: tax on a positive income and on the recorded
\* gains was charged and the accumulators, positive before, are zero
C26_Witness ==
    \E e \in DOMAIN engines :
        /\ engines[e].run.day = GrowthHorizon + 1
        /\ engines[e].balance_history[GrowthHorizon + 1]
              < engines[e].balance_history[GrowthHorizon] - 150000
        /\ engines[e].run.annual_income_accumulator = 0
        /\ engines[e].tax_engine.realized_gains = 0
        /\ engines[e].tax_engine.unrealized_gains = 0

\* day 730 was simulated: the second settlement charged the tax on the
\* income accumulated since the first
C26_WitnessSecondYear ==
    \E e \in DOMAIN engines :
        /\ engines[e].run.day = 2 * GrowthHorizon + 1
        /\ engines[e].balance_history[2 * GrowthHorizon + 1]
              < engines[e].balance_history[2 * GrowthHorizon]
        /\ engines[e].run.annual_income_accumulator = 0

(***************************************************************************)
(* The snapshot store of an engine                                         *)
(***************************************************************************)

\* after days 0..k-1 the store of engine e holds the days divisible by 30
\* among them, each with its own day and with the balance and the credit
\* score recorded for that day
SnapshotsEveryThirty(e) ==
    LET eng == engines[e]
        snaps == eng.state_manager.snapshots
        k == Len(eng.balance_history)
    IN  /\ DOMAIN snaps = {d \in 0..(k - 1) : d % 30 = 0}
        /\ \A d \in DOMAIN snaps :
              /\ snaps[d].day = d
              /\ snaps[d].date = eng.config.start_date + d
              /\ snaps[d].balance = eng.balance_history[d + 1]
              /\ snaps[d].credit_score = eng.credit_history[d + 1]

\* a step keeps every snapshot engine e holds, and the snapshot of a day
\* simulated in the step is the state the day committed
SnapshotsRetained(e) ==
    LET snaps == engines[e].state_manager.snapshots
        snapsNext == engines'[e].state_manager.snapshots
    IN  /\ \A d \in DOMAIN snaps : d \in DOMAIN snapsNext /\ snapsNext[d] = snaps[d]
        /\ \A d \in DOMAIN snapsNext \ DOMAIN snaps :
              SimulatesDay(e, d) /\ snapsNext[d] = CommittedNext(e)

RECURSIVE PayAll(_)
PayAll(liabilities) ==
    IF liabilities = <<>> THEN <<>>
    ELSE <<process_payment(Head(liabilities), Head(liabilities).monthly_payment).liability>>
            \o PayAll(Tail(liabilities))

\* C28 as stated: every day adds the day's interest to a liability's
\* remaining balance, and on a monthly payment day the payment deducted
\* from cash also reduces the remaining balance, clamped at zero.
C28_PaymentsReduceLiabilities ==
    [][\A e \in DOMAIN engines : \A d \in 0..engines[e].config.horizon_days :
          SimulatesDay(e, d) =>
            LET accrued == accrue_daily_interest(Committed(e).liabilities)
            IN  CommittedNext(e).liabilities
                    = IF IsPaymentDay(d) THEN PayAll(accrued) ELSE accrued]_vars

\* C28, what holds: every day, payment days included, adds the day's
\* interest to a liability's remaining balance and changes nothing else of
\* it, so no remaining balance ever falls.
C28_LiabilitiesAccrueOnly ==
    [][\A e \in DOMAIN engines : \A d \in 0..engines[e].config.horizon_days :
          SimulatesDay(e, d) =>
            /\ CommittedNext(e).liabilities
                    = accrue_daily_interest(Committed(e).liabilities)
            /\ \A i \in DOMAIN Committed(e).liabilities :
                    CommittedNext(e).liabilities[i].remaining_balance
                        >= Committed(e).liabilities[i].remaining_balance]_vars

\* day 30 was simulated: the payment was deducted from cash and recorded,
\* and the liability stands above its principal
C28_Witness ==
    \E e \in DOMAIN engines :
        /\ engines[e].run.day = 31
        /\ engines[e].credit_calculator.payment_history # <<>>
        /\ engines[e].state_manager.current_state[1].liabilities # <<>>
        /\ LET l == engines[e].state_manager.current_state[1].liabilities[1]
           IN  /\ l.monthly_payment > 0
               /\ l.remaining_balance > l.principal

(***************************************************************************)
(* Deficits and the assets that remain                                     *)
(***************************************************************************)

\* the cash balance of day d before any asset is sold
PreLiquidation(e, d) ==
    Committed(e).balance + NetFlow(e, d)
        - (IF IsPaymentDay(d) THEN SumMonthlyPayments(Committed(e).liabilities) ELSE 0)
        - (IF IsTaxDay(d)
           THEN apply_annual_tax(engines[e].tax_engine,
                    engines[e].run.annual_income_accumulator
                        + process_income(engines'[e], d))
           ELSE 0)

\* a day that engine e ended below zero left it locked assets only
DeficitLeavesLockedOnly(e) ==
    LET eng == engines[e]
    IN  (eng.balance_history # <<>> /\ eng.state_manager.current_state # <<>>) =>
            LET s == eng.state_manager.current_state[1]
            IN  s.balance < 0 =>
                    \A i \in DOMAIN s.assets : check_lock_status(s.assets[i], s.date)

\* assets are sold on the days whose balance before the sale is negative,
\* and on no other day does the portfolio lose an asset
SoldOnDeficitOnly(e) ==
    \A d \in 0..engines[e].config.horizon_days :
        SimulatesDay(e, d) =>
            IF PreLiquidation(e, d) < 0
            THEN CommittedNext(e).assets
                    = liquidate_assets(Valued(e, d), -PreLiquidation(e, d),
                                       engines[e].run.current_date).remaining_assets
            ELSE /\ CommittedNext(e).assets = Valued(e, d)
                 /\ Len(CommittedNext(e).assets) = Len(Committed(e).assets)

\* C29: when a day ends with a negative committed balance, every asset left
\* in the committed state is locked at that day's date; assets are sold only
\* on days whose balance before liquidation is negative, and on every other
\* day no asset is removed.
C29_DeficitAfterLiquidation ==
    [][\A e \in DOMAIN engines' :
          /\ DeficitLeavesLockedOnly(e)'
          /\ e \in DOMAIN engines => SoldOnDeficitOnly(e)]_vars

\* a day ended below zero after the unlocked assets were sold, with the
\* locked asset still held
C29_Witness ==
    \E e \in DOMAIN engines :
        /\ engines[e].balance_history # <<>>
        /\ Last(engines[e].balance_history) < 0
        /\ LET s == engines[e].state_manager.current_state[1]
           IN  /\ s.balance < 0
               /\ Len(s.assets) = 1
               /\ Len(Scenario(inputs[e].scenario).assets) = 3
               /\ check_lock_status(s.assets[1], s.date)

\* the lock of the last asset ran out during a deficit and the asset was sold
C29_WitnessUnlocked ==
    \E e \in DOMAIN engines :
        /\ engines[e].balance_history # <<>>
        /\ Len(Scenario(inputs[e].scenario).assets) = 3
        /\ engines[e].state_manager.current_state[1].assets = <<>>
        /\ engines[e].state_manager.current_state[1].balance < 0

(***************************************************************************)
(* The accounts of a liquidation                                           *)
(***************************************************************************)

\* the input assets of the last call that did not come back, by position
\* (an asset's id is its position in the input)
Liquidated ==
    {i \in 1..Len(liqAssets) :
        \A k \in DOMAIN liqRet.remaining_assets : liqRet.remaining_assets[k].id # i}

\* the sum of value x (1 - sale penalty) and of value x sale penalty over
\* the input assets at the positions S
RECURSIVE ProceedsOf(_)
ProceedsOf(S) ==
    IF S = {} THEN 0
    ELSE LET i == CHOOSE x \in S : TRUE
         IN  (liqAssets[i].value * (100 - liqAssets[i].sale_penalty)) \div 100
                + ProceedsOf(S \ {i})

RECURSIVE PenaltiesOf(_)
PenaltiesOf(S) ==
    IF S = {} THEN 0
    ELSE LET i == CHOOSE x \in S : TRUE
         IN  (liqAssets[i].value * liqAssets[i].sale_penalty) \div 100
                + PenaltiesOf(S \ {i})

\* C30: the amount raised is the sum of value x (1 - sale penalty) over the
\* liquidated assets and the total penalty the sum of value x sale penalty
\* over them, so the two together are the value of the input minus the
\* value of the returned assets; every input asset is either returned, once
\* and as it was, or liquidated.
C30_LiquidationAccounts ==
    liqRet.called =>
        /\ liqRet.amount_raised = ProceedsOf(Liquidated)
        /\ liqRet.total_penalty = PenaltiesOf(Liquidated)
        /\ liqRet.amount_raised + liqRet.total_penalty
              = calculate_total_value(liqAssets)
                  - calculate_total_value(liqRet.remaining_assets)
        /\ \A k \in DOMAIN liqRet.remaining_assets :
              /\ liqRet.remaining_assets[k].id \in 1..Len(liqAssets)
              /\ liqRet.remaining_assets[k] = liqAssets[liqRet.remaining_assets[k].id]
              /\ \A j \in DOMAIN liqRet.remaining_assets :
                    liqRet.remaining_assets[j].id = liqRet.remaining_assets[k].id => j = k
        /\ Len(liqRet.remaining_assets) + Cardinality(Liquidated) = Len(liqAssets)

\* of three assets two were sold, one of them at a penalty, and the locked
\* one came back: 150 raised, 50 lost to the penalty
C30_Witness ==
    /\ liqRet.called
    /\ Len(liqAssets) = 3
    /\ Cardinality(Liquidated) = 2
    /\ liqRet.amount_raised = 150
    /\ liqRet.total_penalty = 50
    /\ Len(liqRet.remaining_assets) = 1
    /\ check_lock_status(liqRet.remaining_assets[1], liqRet.current_date)

\* of three assets one was sold and two came back, one unsold and one locked
C30_WitnessUnsold ==
    /\ liqRet.called
    /\ Len(liqAssets) = 3
    /\ Cardinality(Liquidated) = 1
    /\ liqRet.amount_raised = 100
    /\ Len(liqRet.remaining_assets) = 2
    /\ ~check_lock_status(liqRet.remaining_assets[1], liqRet.current_date)
    /\ check_lock_status(liqRet.remaining_assets[2], liqRet.current_date)

(***************************************************************************)
(* The realized gain of a liquidation                                      *)
(***************************************************************************)

\* the assets of the valued portfolio that the day's commit no longer holds
SoldOn(e, d) ==
    SelectSeq(Valued(e, d),
              LAMBDA a : \A k \in DOMAIN CommittedNext(e).assets :
                            CommittedNext(e).assets[k].id # a.id)

\* proceeds and penalties of a sale in hundredths of a cent, where the
\* percentages divide exactly
RECURSIVE ExactProceeds(_)
ExactProceeds(assets) ==
    IF assets = <<>> THEN 0
    ELSE Head(assets).value * (100 - Head(assets).sale_penalty)
            + ExactProceeds(Tail(assets))

RECURSIVE ExactPenalties(_)
ExactPenalties(assets) ==
    IF assets = <<>> THEN 0
    ELSE Head(assets).value * Head(assets).sale_penalty + ExactPenalties(Tail(assets))

\* the day's income tax alone, with no tax on gains
IncomeTaxOnly(e, d) ==
    IF IsTaxDay(d)
    THEN calculate_income_tax(engines[e].tax_engine,
                              engines[e].run.annual_income_accumulator
                                + process_income(engines'[e], d))
    ELSE 0

\* C31: in the deficit-liquidation step raised - (asset value before - asset
\* value after) + penalty is zero for every liquidation in exact arithmetic
\* (in whole cents it is zero or a rounded cent per sold asset below zero),
\* so the engine never records a realized gain and an annual tax settlement
\* charges the income tax alone.
C31_RealizedGainIsZero ==
    [][\A e \in DOMAIN engines' :
         /\ engines'[e].tax_engine.realized_gains = 0
         /\ e \in DOMAIN engines =>
              \A d \in 0..engines[e].config.horizon_days :
                 SimulatesDay(e, d) =>
                   LET paid == Committed(e).balance + NetFlow(e, d)
                                 - (IF IsPaymentDay(d)
                                    THEN SumMonthlyPayments(Committed(e).liabilities)
                                    ELSE 0)
                       taxed == paid - IncomeTaxOnly(e, d)
                       r == liquidate_assets(Valued(e, d), -taxed,
                                             engines[e].run.current_date)
                       drop == calculate_total_value(Valued(e, d))
                                 - calculate_total_value(CommittedNext(e).assets)
                       gain == r.amount_raised - drop + r.total_penalty
                   IN  /\ CommittedNext(e).balance = taxed + Raised(e, d, taxed)
                       /\ taxed < 0 =>
                            /\ CommittedNext(e).assets = r.remaining_assets
                            /\ ExactProceeds(SoldOn(e, d)) + ExactPenalties(SoldOn(e, d))
                                  = 100 * drop
                            /\ gain <= 0
                            /\ gain >= -Len(SoldOn(e, d))]_vars

\* day 365 of a run settled the tax on the year's income after assets had
\* been sold at a penalty: no gain stands recorded and 1,500.00 was charged
C31_Witness ==
    \E e \in DOMAIN engines :
        /\ inputs[e].scenario = "eroding"
        /\ engines[e].run.day = GrowthHorizon + 1
        /\ Len(engines[e].state_manager.current_state[1].assets) < 3
        /\ engines[e].tax_engine.realized_gains = 0
        /\ engines[e].balance_history[GrowthHorizon + 1]
              = engines[e].balance_history[GrowthHorizon] - 150000

\* a day sold an asset at a penalty to cover a deficit
C31_WitnessSale ==
    \E e \in DOMAIN engines :
        /\ engines[e].run.phase = "running"
        /\ engines[e].run.day > 0
        /\ inputs[e].scenario = "eroding"
        /\ Len(engines[e].state_manager.current_state[1].assets) = 2
        /\ engines[e].balance_history[engines[e].run.day] > 0
        /\ engines[e].tax_engine.realized_gains = 0

(***************************************************************************)
(* The engine a branch starts as                                           *)
(***************************************************************************)

\* the step is a call of branch_from_snapshot for a day the parent has a
\* snapshot of
BranchCallWithSnapshot ==
    /\ ~branchRet.called
    /\ branchRet'.called
    /\ branchRet'.snapshot_day
            \in DOMAIN engines[branchRet'.parent].state_manager.snapshots

\* C32: when a snapshot exists for day D, branch_from_snapshot(D, overrides)
\* returns a new engine whose horizon is the parent's horizon minus D, whose
\* initial balance, assets, liabilities and credit score are those of
\* snapshot D, and whose income sources and expense items are the parent's,
\* or the override list where one is given.
C32_BranchStartsFromSnapshot ==
    [][BranchCallWithSnapshot =>
          LET p == branchRet'.parent
              c == branchRet'.child
              D == branchRet'.snapshot_day
              snap == engines[p].state_manager.snapshots[D]
          IN  /\ branchRet'.ok
              /\ c \notin DOMAIN engines
              /\ c \in DOMAIN engines'
              /\ engines'[p] = engines[p]
              /\ LET b == engines'[c]
                     ov == inputs'[c].overrides
                 IN  /\ b.config.horizon_days = engines[p].config.horizon_days - D
                     /\ b.run.phase = "ready"
                     /\ b.balance_history = <<>>
                     /\ Len(b.state_manager.current_state) = 1
                     /\ b.state_manager.current_state[1].balance = snap.balance
                     /\ b.state_manager.current_state[1].assets = snap.assets
                     /\ b.state_manager.current_state[1].liabilities = snap.liabilities
                     /\ b.state_manager.current_state[1].credit_score = snap.credit_score
                     /\ b.credit_calculator.score = snap.credit_score
                     /\ b.income_sources
                           = IF "income_sources" \in DOMAIN ov THEN ov.income_sources
                             ELSE engines[p].income_sources
                     /\ b.expense_items
                           = IF "expense_items" \in DOMAIN ov THEN ov.expense_items
                             ELSE engines[p].expense_items]_vars

\* a branch was taken from the snapshot of day 30 of a 31-day run with other
\* income sources: it has one day to run and starts from the balance and
\* the holdings of day 30, which are not those the parent started with
C32_Witness ==
    /\ branchRet.called
    /\ branchRet.ok
    /\ branchRet.snapshot_day = 30
    /\ branchRet.child = 3
    /\ engines[3].config.horizon_days = 1
    /\ engines[3].income_sources = <<Flow(3000, "USD", "daily")>>
    /\ engines[3].income_sources # engines[BranchParent].income_sources
    /\ engines[3].expense_items = engines[BranchParent].expense_items
    /\ LET snap == engines[BranchParent].state_manager.snapshots[30]
           s == engines[3].state_manager.current_state[1]
       IN  /\ s.balance = snap.balance
           /\ s.assets = snap.assets
           /\ s.liabilities = snap.liabilities
           /\ s.balance # engines[BranchParent].config.initial_balance
           /\ s.assets # Scenario("standard").assets
           /\ s.liabilities # Scenario("standard").liabilities

\* a branch was taken from the snapshot of day 30 without overrides: its
\* plan is the parent's
C32_WitnessNoOverride ==
    /\ branchRet.called
    /\ branchRet.ok
    /\ branchRet.snapshot_day = 30
    /\ branchRet.child = 2
    /\ engines[2].config.horizon_days = 1
    /\ engines[2].income_sources = engines[BranchParent].income_sources
    /\ engines[2].state_manager.current_state[1].credit_score
          = engines[BranchParent].state_manager.snapshots[30].credit_score

(***************************************************************************)
(* The days of a branch                                                    *)
(***************************************************************************)

\* the branches made without overrides that have run to the end, as has
\* their parent
ContinuedBranches ==
    {c \in DOMAIN engines \cap Branches :
        /\ Done(c)
        /\ Done(inputs[c].branch_of)
        /\ inputs[c].overrides = EmptyKw}

\* the balances the parent recorded for the days after day D
ParentFrom(p, D) ==
    SubSeq(engines[p].balance_history, D + 2, Len(engines[p].balance_history))

\* C33: a branch made by branch_from_snapshot(D) without overrides continues
\* its parent: its balance history is the parent's balance history from day
\* D + 1 onward.
C33_BranchContinuesParent ==
    \A c \in ContinuedBranches :
        engines[c].balance_history = ParentFrom(inputs[c].branch_of, inputs[c].snapshot_day)

\* C33 as the code has it: a branch counts its days from 0 again.  Its k-th
\* day is a day with index k: it takes the recurring amounts, the monthly
\* payments and the asset shocks of day k, and it runs for the parent's
\* horizon minus D days.
C33_BranchRestartsDayIndex ==
    [][\A c \in DOMAIN engines \cap Branches :
          \A k \in 0..engines[c].config.horizon_days :
             SimulatesDay(c, k) =>
                /\ k < engines[inputs[c].branch_of].config.horizon_days
                       - inputs[c].snapshot_day
                /\ Len(engines'[c].balance_history) = k + 1
                /\ CommittedNext(c).day = k
                /\ CommittedNext(c).date
                     = engines[inputs[c].branch_of].state_manager
                            .snapshots[inputs[c].snapshot_day].date + k
                /\ LET paid == Committed(c).balance + NetFlow(c, k)
                                 - (IF IsPaymentDay(k)
                                    THEN SumMonthlyPayments(Committed(c).liabilities)
                                    ELSE 0)
                   IN  /\ CommittedNext(c).balance = paid + Raised(c, k, paid)
                       /\ paid >= 0 => CommittedNext(c).assets = Valued(c, k)]_vars

\* a branch taken from day 0 of a 31-day run without overrides has run its
\* 31 days, one more than the parent ran after day 0, and its first balance
\* is not the parent's balance of day 1
C33_Witness ==
    \E c \in ContinuedBranches :
        /\ inputs[c].snapshot_day = 0
        /\ engines[inputs[c].branch_of].config.horizon_days = MaxHorizon
        /\ Len(engines[c].balance_history) = MaxHorizon
        /\ Len(ParentFrom(inputs[c].branch_of, 0)) = MaxHorizon - 1
        /\ engines[c].balance_history[1] # ParentFrom(inputs[c].branch_of, 0)[1]

(***************************************************************************)
(* Holdings are never negative                                             *)
(***************************************************************************)

NonNegativeHoldings(state) ==
    /\ \A i \in DOMAIN state.assets : state.assets[i].value >= 0
    /\ \A i \in DOMAIN state.liabilities : state.liabilities[i].remaining_balance >= 0

\* C34: in every committed state of a run initialized with non-negative
\* asset values and liability balances, every asset's value and every
\* liability's remaining balance is zero or more; process_payment never
\* returns a liability with a negative remaining balance, whatever the
\* payment amount.
C34_HoldingsNonNegative ==
    /\ \A e \in DOMAIN engines :
          /\ \A k \in DOMAIN engines[e].state_manager.current_state :
                NonNegativeHoldings(engines[e].state_manager.current_state[k])
          /\ \A d \in DOMAIN engines[e].state_manager.snapshots :
                NonNegativeHoldings(engines[e].state_manager.snapshots[d])
    /\ payRet.called =>
          /\ payRet.updated.remaining_balance >= 0
          /\ payRet.updated.remaining_balance
                = Max(0, payRet.liability.remaining_balance - payRet.payment_amount)
          /\ payRet.is_paid_off
                <=> payRet.liability.remaining_balance <= payRet.payment_amount

\* a run ended holding an asset that a shock of more than its value had
\* brought to zero and a liability that had accrued interest; a payment of
\* more than was owed on it returned it with nothing owed
C34_Witness ==
    /\ 1 \in DOMAIN engines
    /\ Done(1)
    /\ inputs[1].scenario = "wild"
    /\ \E i \in DOMAIN engines[1].state_manager.current_state[1].assets :
          engines[1].state_manager.current_state[1].assets[i].value = 0
    /\ payRet.called
    /\ payRet.liability.remaining_balance > payRet.liability.principal
    /\ payRet.payment_amount > payRet.liability.remaining_balance
    /\ payRet.updated.remaining_balance = 0
    /\ payRet.is_paid_off

\* a refund was booked as a payment: the liability grew
C34_WitnessRefund ==
    /\ payRet.called
    /\ payRet.payment_amount < 0
    /\ payRet.updated.remaining_balance > payRet.liability.remaining_balance
    /\ ~payRet.is_paid_off

(***************************************************************************)
(* The window of recorded payments                                         *)
(***************************************************************************)

\* the flags of the record_payment calls made so far, in call order
Recorded == [i \in 1..Len(creditCalls) |-> creditCalls[i].on_time]

\* C35: the payment history never holds more than 24 entries: after n
\* record_payment calls it is the most recent min(n, 24) recorded entries in
\* the order they were recorded, the oldest dropped first.
C35_PaymentWindow ==
    \A e \in DOMAIN engines :
        LET h == engines[e].credit_calculator.payment_history
            n == Len(Recorded)
        IN  /\ Len(h) <= 24
            /\ Len(h) = Min(n, 24)
            /\ h = SubSeq(Recorded, n - Min(n, 24) + 1, n)

\* 26 payments were recorded, the first and the third late: the window
\* holds 24, begins with the late third and has lost the late first
C35_Witness ==
    /\ 1 \in DOMAIN engines
    /\ Len(creditCalls) = 26
    /\ ~creditCalls[1].on_time
    /\ creditCalls[2].on_time
    /\ ~creditCalls[3].on_time
    /\ Len(engines[1].credit_calculator.payment_history) = 24
    /\ ~engines[1].credit_calculator.payment_history[1]
    /\ \A i \in 2..24 : engines[1].credit_calculator.payment_history[i]

(***************************************************************************)
(* The rates after update_rates_daily                                      *)
(***************************************************************************)

\* the rates a manager of the same construction holds after the one call
\* update_rates_daily(day)
RatesOf(cm, day) ==
    update_rates_daily(ExchangeRateManager(cm.base_currency, cm.supported_currencies,
                                           cm.seed), day).base_rates

\* the position of currency c among the currencies that are not the base
DrawOf(cm, c) ==
    Cardinality({i \in 1..Len(cm.supported_currencies) :
                    /\ cm.supported_currencies[i] # cm.base_currency
                    /\ i <= CHOOSE j \in 1..Len(cm.supported_currencies) :
                                cm.supported_currencies[j] = c})

\* C36: the rate of each non-base currency after update_rates_daily(day) is
\* reproducible from (seed, day) alone, whichever calls were made before, in
\* whatever order and however often; the base currency's rate is never
\* changed.
C36_RateFromSeedAndDay ==
    convRet.op = "update_rates_on" =>
        /\ \A c \in DOMAIN currency_manager.base_rates :
              c # currency_manager.base_currency =>
                 currency_manager.base_rates[c] = RatesOf(currency_manager, convRet.day)[c]
        /\ currency_manager.base_rates[currency_manager.base_currency]
              = DefaultRate(currency_manager.base_currency)

\* C36 as the code has it: the day's relative change of each rate is drawn
\* from (seed, day) alone and multiplies the rate the manager holds, which
\* is the product of all the calls made so far; the base currency's rate is
\* never changed.
C36_ChangeFromSeedAndDay ==
    [][convRet'.op = "update_rates_on" =>
          LET cm == currency_manager
              day == convRet'.day
          IN  /\ DOMAIN currency_manager'.base_rates = DOMAIN cm.base_rates
              /\ \A c \in DOMAIN cm.base_rates :
                    currency_manager'.base_rates[c]
                      = IF c = cm.base_currency THEN DefaultRate(c)
                        ELSE cm.base_rates[c]
                               + (cm.base_rates[c] * RateSigma
                                    * StdNormal(cm.seed + day, DrawOf(cm, c))) \div 1000]_vars

\* the rates of one day were updated a second time: the rate of a currency
\* moved on from the rate the first call had left
C36_Witness ==
    /\ convRet.op = "update_rates_on"
    /\ convRet.calls = 2
    /\ \E c \in DOMAIN currency_manager.base_rates :
          /\ c # currency_manager.base_currency
          /\ RatesOf(currency_manager, convRet.day)[c] # DefaultRate(c)
          /\ currency_manager.base_rates[c]
                = RatesOf(currency_manager, convRet.day)[c]
                    + (RatesOf(currency_manager, convRet.day)[c]
                         * (RatesOf(currency_manager, convRet.day)[c] - DefaultRate(c)))
                      \div DefaultRate(c)

(***************************************************************************)
(* The periods of collapse_timing_density                                  *)
(***************************************************************************)

\* the chunk size of the last call: max(1, len(arr) // bins)
ChunkSize(bins) == Max(1, Len(riskRet.balance_history) \div bins)

\* the days (positions in the balance history) that period k of a call with
\* that many bins reports on
PeriodDays(bins, k) ==
    {d \in 1..Len(riskRet.balance_history) :
        d > (k - 1) * ChunkSize(bins) /\ d <= k * ChunkSize(bins)}

\* the reported value of period k is the share of negative balances among
\* its days, in per-mille
PeriodValueIsDeficitShare(bins, k) ==
    /\ PeriodDays(bins, k) # {}
    /\ riskRet.result.density[k]
          = (Cardinality({d \in PeriodDays(bins, k) :
                             riskRet.balance_history[d] < 0}) * 1000)
               \div Cardinality(PeriodDays(bins, k))

\* the days that some reported period covers
CoveredDays ==
    UNION {PeriodDays(riskRet.bins, k) : k \in 1..Len(riskRet.result.density)}

\* C37: collapse_timing_density(bins) partitions the full balance history:
\* the chunks are contiguous, pairwise disjoint and together cover every
\* recorded day, for every history length and every bins >= 1, and each
\* reported value is the fraction of negative-balance days in its chunk.
C37_DensityPartitionsHistory ==
    riskRet.called =>
        /\ Len(riskRet.result.density) = Len(riskRet.result.bins)
        /\ \A k \in 1..Len(riskRet.result.density) :
              /\ riskRet.result.bins[k] = k
              /\ PeriodValueIsDeficitShare(riskRet.bins, k)
        /\ CoveredDays = 1..Len(riskRet.balance_history)

\* C37 as the code has it: the periods are contiguous chunks of
\* max(1, len // bins) days from the first day on, at most bins of them, and
\* each value is the share of negative days of its chunk; the days after the
\* last chunk, fewer than bins, are reported on by no period.
C37_DensityOfLeadingChunks ==
    riskRet.called =>
        LET n == Len(riskRet.balance_history)
            periods == Len(riskRet.result.density)
        IN  /\ Len(riskRet.result.bins) = periods
            /\ periods = Min(riskRet.bins, n)
            /\ \A k \in 1..periods :
                  /\ riskRet.result.bins[k] = k
                  /\ PeriodValueIsDeficitShare(riskRet.bins, k)
                  /\ Cardinality(PeriodDays(riskRet.bins, k)) = ChunkSize(riskRet.bins)
            /\ CoveredDays = 1..(periods * ChunkSize(riskRet.bins))
            /\ n - periods * ChunkSize(riskRet.bins) >= 0
            /\ n - periods * ChunkSize(riskRet.bins) < riskRet.bins

\* three days were recorded, the last one the only deficit, and two
\* periods asked for: both report no deficit and the third day is in neither
C37_Witness ==
    /\ riskRet.called
    /\ riskRet.bins = 2
    /\ Len(riskRet.balance_history) = 3
    /\ riskRet.balance_history[1] >= 0
    /\ riskRet.balance_history[2] >= 0
    /\ riskRet.balance_history[3] < 0
    /\ riskRet.result.density = <<0, 0>>
    /\ 3 \notin CoveredDays

\* four days in two periods: every day is covered and the periods report
\* one deficit day in two and none
C37_WitnessEven ==
    /\ riskRet.called
    /\ riskRet.bins = 2
    /\ Len(riskRet.balance_history) = 4
    /\ riskRet.result.density = <<500, 0>>
    /\ CoveredDays = 1..4

(***************************************************************************)
(* The tiers of a health score                                             *)
(***************************************************************************)

\* the thresholds of both tables, in tenths of a point
TierThresholds == {900, 750, 600, 450, 300, 150, 0}

\* the highest threshold that does not exceed the score
HighestThreshold(score) ==
    CHOOSE t \in TierThresholds :
        t <= score /\ \A u \in TierThresholds : u <= score => u <= t

\* the rows of a table whose label and grade are those returned
RowsOf(table, ret) ==
    {k \in 1..Len(table) : table[k].label = ret.label /\ table[k].emoji = ret.emoji}

\* C38: for every health score in [0, 100] the status lookup and the grade
\* lookup each return the tier with the highest threshold that does not
\* exceed the score (thresholds 90, 75, 60, 45, 30, 15, 0), and the lowest
\* tier when no threshold qualifies; both return the tier of the same rank.
C38_TierOfScore ==
    vibeRet.called =>
        LET score == vibeRet.health_score
            vibe == RowsOf(VIBE_THRESHOLDS, vibeRet.vibe)
            pet == RowsOf(PET_STAGES, vibeRet.pet)
        IN  /\ Cardinality(vibe) = 1
            /\ pet = vibe
            /\ \A k \in vibe :
                  IF score >= 0
                  THEN /\ VIBE_THRESHOLDS[k].min_score = HighestThreshold(score)
                       /\ PET_STAGES[k].min_score = HighestThreshold(score)
                  ELSE k = Len(VIBE_THRESHOLDS) /\ k = Len(PET_STAGES)

\* a score of exactly 75.0 was looked up: Confident, and Strong Stability
C38_Witness ==
    /\ vibeRet.called
    /\ vibeRet.health_score = 750
    /\ vibeRet.vibe.label = "Confident"
    /\ vibeRet.pet.label = "Strong Stability"

\* a score below zero was looked up: the lowest tier of both tables
C38_WitnessBelow ==
    /\ vibeRet.called
    /\ vibeRet.health_score < 0
    /\ vibeRet.vibe.label = "Collapsed"
    /\ vibeRet.pet.emoji = "F"

====
